---- MODULE Spec2Model ----
(***************************************************************************)
(* Sheet ingestion engine of the Arizona Roofers scheduler                 *)
(* (services/googleSheetsService): the resilient fetcher fetchWithRetry,   *)
(* the skill and rank loaders and the query fetchSheetData, as state       *)
(* machines whose steps are the code between two awaits.                   *)
(***************************************************************************)
EXTENDS Integers, Sequences, FiniteSets, TLC

(***************************************************************************)
(* Bounds of the model and program constants.                              *)
(***************************************************************************)
\* The retries argument of an observed fetchWithRetry call ranges over 0..MaxRetries.
MaxRetries == 3

\* Defaults of fetchWithRetry(url, retries = 3, initialDelay = 1000).
DefaultRetries == 3
DefaultInitialDelay == 1000

\* initialDelay arguments tried for an observed call.
InitialDelays == {1, DefaultInitialDelay}

\* HTTP statuses the server may answer with: 2xx, redirect, client errors,
\* rate limit, the 499/500 boundary, server errors.
Statuses == {200, 204, 301, 403, 404, 429, 499, 500, 503}

\* Errors the transport may throw out of fetch(url).
TransportErrors == {"ECONNRESET", "ETIMEDOUT"}

\* The error of the statement after the loop.
UnexpectedError == "Fetch failed unexpectedly."

(***************************************************************************)
(* fetchWithRetry: one call is a record                                    *)
(*   pc           where the call stands: "idle", "fetch" (awaiting         *)
(*                fetch(url)), "sleepAfterStatus" / "sleepAfterThrow"      *)
(*                (awaiting sleep in the try / the catch block),           *)
(*                "returned", "threw"                                      *)
(*   i, retries, currentDelay   the loop's variables                       *)
(*   initialDelay the argument (kept for the claims)                       *)
(*   sleepMs      the argument of the last sleep(ms) call                  *)
(*   nreq, nsleep how many times fetch(url) and sleep(ms) were called      *)
(*   response     <<status>> of the response returned, <<>> when none      *)
(*   error        the error thrown, "" when none                           *)
(***************************************************************************)
IdleCall ==
    [pc |-> "idle", i |-> 0, retries |-> 0, currentDelay |-> 0,
     initialDelay |-> 0, sleepMs |-> 0, nreq |-> 0, nsleep |-> 0,
     response |-> <<>>, error |-> ""]

\* response.ok of the Fetch API: a status in 200..299.
IsOk(status) == status >= 200 /\ status <= 299

\* Line 19: if (response.ok || (response.status < 500 && response.status !== 429))
ShouldReturnOnlyOk(status) == IsOk(status)
ShouldReturn(status) == IsOk(status) \/ (status < 500 /\ status # 429)

\* The loop head `i <= retries` followed by `await fetch(url)`; past the loop,
\* the trailing throw.
Attempt(c) ==
    IF c.i <= c.retries
    THEN [c EXCEPT !.pc = "fetch", !.nreq = @ + 1]
    ELSE [c EXCEPT !.pc = "threw", !.error = UnexpectedError]

\* The call itself: currentDelay = initialDelay, i = 0, first attempt.
fetchWithRetry(retries, initialDelay) ==
    Attempt([IdleCall EXCEPT !.retries = retries,
                             !.initialDelay = initialDelay,
                             !.currentDelay = initialDelay])

\* Lines 15-32: fetch(url) resolved with a response of this status.
OnResponseThrowsWhenExhausted(c, status) ==
    IF ShouldReturn(status)
    THEN [c EXCEPT !.pc = "returned", !.response = <<status>>]
    ELSE IF c.i < c.retries
         THEN [c EXCEPT !.pc = "sleepAfterStatus", !.sleepMs = c.currentDelay,
                        !.nsleep = @ + 1]
         ELSE [c EXCEPT !.pc = "threw", !.error = UnexpectedError]
OnResponse(c, status) ==
    IF ShouldReturn(status)
    THEN [c EXCEPT !.pc = "returned", !.response = <<status>>]
    ELSE IF c.i < c.retries
         THEN [c EXCEPT !.pc = "sleepAfterStatus", !.sleepMs = c.currentDelay,
                        !.nsleep = @ + 1]
         ELSE [c EXCEPT !.pc = "returned", !.response = <<status>>]

OnThrowSleepsOnceMore(c, error) ==
    IF c.i <= c.retries
    THEN [c EXCEPT !.pc = "sleepAfterThrow", !.sleepMs = c.currentDelay,
                   !.nsleep = @ + 1]
    ELSE [c EXCEPT !.pc = "threw", !.error = error]

\* Lines 34-44: fetch(url) rejected with a transport error.
OnThrow(c, error) ==
    IF c.i < c.retries
    THEN [c EXCEPT !.pc = "sleepAfterThrow", !.sleepMs = c.currentDelay,
                   !.nsleep = @ + 1]
    ELSE [c EXCEPT !.pc = "threw", !.error = error]

\* Lines 27 and 39: currentDelay *= 2
NextDelayNotDoubled(d) == d
NextDelay(d) == d * 2

\* Lines 26-28: the sleep of the try block is over: double, continue (i++).
OnWakeAfterStatus(c) ==
    Attempt([c EXCEPT !.currentDelay = NextDelay(@), !.i = @ + 1])

\* Lines 38-40: the sleep of the catch block is over: double, continue (i++).
OnWakeAfterThrowKeepsDelay(c) ==
    Attempt([c EXCEPT !.i = @ + 1])
OnWakeAfterThrow(c) ==
    Attempt([c EXCEPT !.currentDelay = NextDelay(@), !.i = @ + 1])

OnWake(c) ==
    IF c.pc = "sleepAfterStatus" THEN OnWakeAfterStatus(c) ELSE OnWakeAfterThrow(c)

Sleeping(c) == c.pc \in {"sleepAfterStatus", "sleepAfterThrow"}
Finished(c) == c.pc \in {"returned", "threw"}

(***************************************************************************)
(* Text.  A JavaScript string is the sequence of its characters, each a    *)
(* one-character string.                                                   *)
(***************************************************************************)
LowerChars ==
    <<"a", "b", "c", "d", "e", "f", "g", "h", "i", "j", "k", "l", "m",
      "n", "o", "p", "q", "r", "s", "t", "u", "v", "w", "x", "y", "z">>
UpperChars ==
    <<"A", "B", "C", "D", "E", "F", "G", "H", "I", "J", "K", "L", "M",
      "N", "O", "P", "Q", "R", "S", "T", "U", "V", "W", "X", "Y", "Z">>
DigitChars == <<"0", "1", "2", "3", "4", "5", "6", "7", "8", "9">>

\* The place of character c in a table, 0 when it is not in it.
Pos(c, tbl) ==
    IF \E n \in 1..Len(tbl) : tbl[n] = c
    THEN CHOOSE n \in 1..Len(tbl) : tbl[n] = c
    ELSE 0

\* Each letter with its counterpart in the other case, and the digits.
LowerOf == [c \in {UpperChars[n] : n \in 1..Len(UpperChars)} |-> LowerChars[Pos(c, UpperChars)]]
UpperOf == [c \in {LowerChars[n] : n \in 1..Len(LowerChars)} |-> UpperChars[Pos(c, LowerChars)]]
Digits == {DigitChars[n] : n \in 1..Len(DigitChars)}

IsLower(c) == c \in DOMAIN UpperOf
IsUpper(c) == c \in DOMAIN LowerOf
IsDigit(c) == c \in Digits
DigitValue(c) == Pos(c, DigitChars) - 1
\* \s of a regular expression, and what trim() removes.
IsSpace(c) == c \in {" ", "\t", "\n"}

toLowerCase(s) ==
    [n \in 1..Len(s) |-> IF IsUpper(s[n]) THEN LowerOf[s[n]] ELSE s[n]]
toUpperCase(s) ==
    [n \in 1..Len(s) |-> IF IsLower(s[n]) THEN UpperOf[s[n]] ELSE s[n]]

RECURSIVE trimStart(_)
trimStart(s) ==
    IF s # <<>> /\ IsSpace(Head(s)) THEN trimStart(Tail(s)) ELSE s
RECURSIVE trimEnd(_)
trimEnd(s) ==
    IF s # <<>> /\ IsSpace(s[Len(s)]) THEN trimEnd(SubSeq(s, 1, Len(s) - 1)) ELSE s
trim(s) == trimEnd(trimStart(s))

startsWith(s, p) == Len(p) <= Len(s) /\ SubSeq(s, 1, Len(p)) = p
endsWith(s, p) == Len(p) <= Len(s) /\ SubSeq(s, Len(s) - Len(p) + 1, Len(s)) = p
includes(s, p) ==
    \E n \in 0..(Len(s) - Len(p)) : SubSeq(s, n + 1, n + Len(p)) = p

\* name.replace(/"/g, '')
NotQuote(c) == c # "\""
\* .replace(/[^a-z0-9]/g, '')
IsLowerOrDigit(c) == IsLower(c) \/ IsDigit(c)
\* Line 106: name.trim().toLowerCase().replace(/"/g, '').replace(/[^a-z0-9]/g, '')
normalizeNameKeepsCase(name) ==
    SelectSeq(SelectSeq(trim(name), NotQuote), IsLowerOrDigit)
normalizeName(name) ==
    SelectSeq(SelectSeq(toLowerCase(trim(name)), NotQuote), IsLowerOrDigit)

\* The decimal digits of a natural number: String(n).
RECURSIVE NatToString(_)
NatToString(n) ==
    IF n < 10 THEN <<DigitChars[n + 1]>>
    ELSE NatToString(n \div 10) \o <<DigitChars[(n % 10) + 1]>>

(***************************************************************************)
(* JSON values of a response body, tagged with their JavaScript type.      *)
(***************************************************************************)
Str(s) == [t |-> "string", v |-> s]
Num(n) == [t |-> "number", v |-> n]
Bool(b) == [t |-> "boolean", v |-> b]
Arr(a) == [t |-> "array", v |-> a]
Null == [t |-> "null"]
Undefined == [t |-> "undefined"]

\* x is null or undefined: reading a property of x throws a TypeError.
Nullish(x) == x.t \in {"null", "undefined"}

\* ToBoolean(x)
Truthy(x) ==
    CASE x.t = "string" -> x.v # <<>>
      [] x.t = "number" -> x.v # 0
      [] x.t = "boolean" -> x.v
      [] x.t = "array" -> TRUE
      [] OTHER -> FALSE

\* x[n], n counted from 0, of a value that is not null or undefined.
At(x, n) ==
    IF x.t = "array" /\ n >= 0 /\ n < Len(x.v) THEN x.v[n + 1]
    ELSE IF x.t = "string" /\ n >= 0 /\ n < Len(x.v) THEN Str(<<x.v[n + 1]>>)
    ELSE Undefined

\* x.length is a number (arrays and strings); otherwise it is undefined and
\* every comparison with it is false.
HasLength(x) == x.t \in {"array", "string"}
LengthOf(x) == IF HasLength(x) THEN Len(x.v) ELSE 0

\* String(x)
RECURSIVE ToStr(_)
RECURSIVE JoinComma(_)
JoinComma(a) ==
    IF a = <<>> THEN <<>>
    ELSE (IF Nullish(a[1]) THEN <<>> ELSE ToStr(a[1]))
         \o (IF Len(a) > 1 THEN <<",">> \o JoinComma(Tail(a)) ELSE <<>>)
ToStr(x) ==
    CASE x.t = "string" -> x.v
      [] x.t = "number" -> IF x.v < 0 THEN <<"-">> \o NatToString(-x.v)
                           ELSE NatToString(x.v)
      [] x.t = "boolean" -> IF x.v THEN <<"t", "r", "u", "e">>
                            ELSE <<"f", "a", "l", "s", "e">>
      [] x.t = "array" -> JoinComma(x.v)
      [] x.t = "null" -> <<"n", "u", "l", "l">>
      [] OTHER -> <<"u", "n", "d", "e", "f", "i", "n", "e", "d">>

\* The value of a run of digits.
RECURSIVE DigitsValue(_)
DigitsValue(s) ==
    IF s = <<>> THEN 0
    ELSE 10 * DigitsValue(SubSeq(s, 1, Len(s) - 1)) + DigitValue(s[Len(s)])

\* The longest prefix of s made of digits.
RECURSIVE DigitPrefix(_)
DigitPrefix(s) ==
    IF s # <<>> /\ IsDigit(Head(s)) THEN <<Head(s)>> \o DigitPrefix(Tail(s)) ELSE <<>>

NaN == [nan |-> TRUE]
\* parseInt(x, 10): String(x), leading blanks skipped, an optional sign, then
\* the leading digits; NaN when there is none.
parseInt(x) ==
    LET s == trimStart(ToStr(x))
        signed == s # <<>> /\ Head(s) \in {"+", "-"}
        digits == DigitPrefix(IF signed THEN Tail(s) ELSE s)
    IN  IF digits = <<>> THEN NaN
        ELSE [nan |-> FALSE,
              v |-> IF signed /\ Head(s) = "-" THEN -DigitsValue(digits)
                    ELSE DigitsValue(digits)]

(***************************************************************************)
(* JavaScript Map: a function from keys to values. Map.set on a key that   *)
(* is present replaces its value.                                          *)
(***************************************************************************)
EmptyMap == [k \in {} |-> 0]
MapHas(m, k) == k \in DOMAIN m
MapSet(m, k, v) == [x \in (DOMAIN m) \cup {k} |-> IF x = k THEN v ELSE m[x]]

\* What a parse yields: the map as built when it ended, and whether it ended
\* by an exception.
Done(m) == [threw |-> FALSE, map |-> m]
Threw(m) == [threw |-> TRUE, map |-> m]

(***************************************************************************)
(* fetchSalesRankings, lines 120-139: the rows of data.values.             *)
(***************************************************************************)
SalesOrder == <<"s", "a", "l", "e", "s", " ", "o", "r", "d", "e", "r">>

\* The callback of values.forEach for the row at index (counted from 0).
RankRowLastWins(rankMap, row, index) ==
    IF Truthy(row) /\ HasLength(row) /\ LengthOf(row) > 0 /\ Truthy(At(row, 0))
    THEN LET name == ToStr(At(row, 0))
         IN  IF includes(toLowerCase(name), SalesOrder) THEN rankMap
             ELSE MapSet(rankMap, normalizeName(name), index + 1)
    ELSE rankMap
RankRow(rankMap, row, index) ==
    IF Truthy(row) /\ HasLength(row) /\ LengthOf(row) > 0 /\ Truthy(At(row, 0))
    THEN LET name == ToStr(At(row, 0))
             normalized == normalizeName(name)
         IN  IF includes(toLowerCase(name), SalesOrder) THEN rankMap
             ELSE IF MapHas(rankMap, normalized) THEN rankMap
             ELSE MapSet(rankMap, normalized, index + 1)
    ELSE rankMap

RECURSIVE RankRows(_, _, _)
RankRows(rankMap, rows, index) ==
    IF index >= Len(rows) THEN rankMap
    ELSE RankRows(RankRow(rankMap, rows[index + 1], index), rows, index + 1)

ParseRanks(values) ==
    IF ~Truthy(values) \/ (HasLength(values) /\ LengthOf(values) = 0)
    THEN Done(EmptyMap)
    ELSE IF values.t # "array" THEN Threw(EmptyMap)
    ELSE Done(RankRows(EmptyMap, values.v, 0))

(***************************************************************************)
(* fetchRepSkills, lines 157-191: the rows of data.values.                 *)
(***************************************************************************)
Zip == <<"z", "i", "p">>

\* headers.findIndex(h => h.toLowerCase().includes('zip')), counted from 0.
ZipColumnIndex(headers) ==
    IF \E n \in 1..Len(headers) : includes(toLowerCase(headers[n]), Zip)
    THEN (CHOOSE n \in 1..Len(headers) :
             /\ includes(toLowerCase(headers[n]), Zip)
             /\ \A m \in 1..(n - 1) : ~includes(toLowerCase(headers[m]), Zip)) - 1
    ELSE -1

\* headers.slice(1, zipCodeColumnIndex > 0 ? zipCodeColumnIndex : headers.length)
SkillHeaders(headers, zipCodeColumnIndex) ==
    SubSeq(headers, 2,
           IF zipCodeColumnIndex > 0 THEN zipCodeColumnIndex ELSE Len(headers))

\* skillHeaders.forEach: the header at index n-1 reads row[n].
RECURSIVE SkillsOfRow(_, _, _, _)
SkillsOfRow(skills, row, skillHeaders, n) ==
    IF n > Len(skillHeaders) THEN skills
    ELSE LET skillValue == parseInt(At(row, n))
         IN  SkillsOfRow(IF skillValue.nan THEN skills
                         ELSE MapSet(skills, skillHeaders[n], skillValue.v),
                         row, skillHeaders, n + 1)

\* zipString.split(/[,;\s]+/).map(zip => zip.trim()).filter(Boolean): the
\* maximal runs of characters that are no separator.
IsZipSeparator(c) == c \in {",", ";"} \/ IsSpace(c)
RECURSIVE SplitZips(_, _)
SplitZips(s, cur) ==
    IF s = <<>> THEN (IF cur = <<>> THEN <<>> ELSE <<cur>>)
    ELSE IF IsZipSeparator(Head(s))
         THEN (IF cur = <<>> THEN <<>> ELSE <<cur>>) \o SplitZips(Tail(s), <<>>)
         ELSE SplitZips(Tail(s), cur \o <<Head(s)>>)

\* The body of `for (const row of skillRows)`.
SkillRow(skillsMap, row, headers, zipCodeColumnIndex) ==
    IF Nullish(row) THEN Threw(skillsMap)
    ELSE LET repName == At(row, 0)
         IN  IF ~Truthy(repName) THEN Done(skillsMap)
             ELSE IF repName.t # "string" THEN Threw(skillsMap)
             ELSE LET skills == SkillsOfRow(EmptyMap, row,
                                            SkillHeaders(headers, zipCodeColumnIndex), 1)
                      zipCell == At(row, zipCodeColumnIndex)
                      zipCodes == IF zipCodeColumnIndex > -1 /\ Truthy(zipCell)
                                  THEN SplitZips(ToStr(zipCell), <<>>)
                                  ELSE <<>>
                  IN  Done(MapSet(skillsMap, normalizeName(repName.v),
                                  [skills |-> skills, zipCodes |-> zipCodes]))

RECURSIVE SkillRows(_, _, _, _)
SkillRows(skillsMap, rows, headers, zipCodeColumnIndex) ==
    IF rows = <<>> THEN Done(skillsMap)
    ELSE LET r == SkillRow(skillsMap, Head(rows), headers, zipCodeColumnIndex)
         IN  IF r.threw THEN r
             ELSE SkillRows(r.map, Tail(rows), headers, zipCodeColumnIndex)

ParseSkills(values) ==
    IF ~Truthy(values) \/ (HasLength(values) /\ LengthOf(values) < 2)
    THEN Done(EmptyMap)
    ELSE LET first == At(values, 0)
         IN  IF first.t # "array" \/ \E n \in 1..Len(first.v) : first.v[n].t # "string"
             THEN Threw(EmptyMap)
             ELSE LET headers == [n \in 1..Len(first.v) |-> trim(first.v[n].v)]
                  IN  SkillRows(EmptyMap, Tail(values.v), headers, ZipColumnIndex(headers))

(***************************************************************************)
(* findSheetNameForDate, lines 57-103.  A date is [y, m, d], the local     *)
(* calendar day; since dateToFind and startDate are set to 00:00:00.000    *)
(* and endDate to 23:59:59.999, the comparisons of line 87 compare days.   *)
(***************************************************************************)
\* constants.SHEET_TITLE_PREFIX
SHEET_TITLE_PREFIX == <<"S", "c", "h", "e", "d", "u", "l", "e">>

IsLeapYear(y) == (y % 4 = 0 /\ y % 100 # 0) \/ y % 400 = 0
DaysBeforeMonth(y, monthIndex) ==
    LET cum == <<0, 31, 59, 90, 120, 151, 181, 212, 243, 273, 304, 334>>
    IN  cum[monthIndex + 1] + (IF monthIndex >= 2 /\ IsLeapYear(y) THEN 1 ELSE 0)
DaysBeforeYear(y) ==
    365 * y + ((y - 1) \div 4) - ((y - 1) \div 100) + ((y - 1) \div 400)

\* The day new Date(year, monthIndex, day) falls on, numbered consecutively:
\* a month index outside 0..11 carries into the year, a day outside the month
\* carries into the neighbouring months.
DayNumber(year, monthIndex, day) ==
    LET y == year + (monthIndex \div 12)
        m == monthIndex % 12
    IN  DaysBeforeYear(y) + DaysBeforeMonth(y, m) + day

\* /(\d{1,2})\/(\d{1,2})\s*-\s*(\d{1,2})\/(\d{1,2})/ tried at place p of s with
\* groups of n1, n2, n3, n4 digits.
DigitsAt(s, p, n) == p + n - 1 <= Len(s) /\ \A j \in p..(p + n - 1) : IsDigit(s[j])
CharAt(s, p, c) == p <= Len(s) /\ s[p] = c
RECURSIVE SkipSpaces(_, _)
SkipSpaces(s, p) == IF p <= Len(s) /\ IsSpace(s[p]) THEN SkipSpaces(s, p + 1) ELSE p

RangeAt(s, p, n) ==
    LET slash1 == p + n[1]
        dash == SkipSpaces(s, slash1 + 1 + n[2])
        third == SkipSpaces(s, dash + 1)
        slash2 == third + n[3]
    IN  IF /\ DigitsAt(s, p, n[1]) /\ CharAt(s, slash1, "/")
           /\ DigitsAt(s, slash1 + 1, n[2]) /\ CharAt(s, dash, "-")
           /\ DigitsAt(s, third, n[3]) /\ CharAt(s, slash2, "/")
           /\ DigitsAt(s, slash2 + 1, n[4])
        THEN [ok |-> TRUE,
              startMonth |-> DigitsValue(SubSeq(s, p, p + n[1] - 1)),
              startDay |-> DigitsValue(SubSeq(s, slash1 + 1, slash1 + n[2])),
              endMonth |-> DigitsValue(SubSeq(s, third, third + n[3] - 1)),
              endDay |-> DigitsValue(SubSeq(s, slash2 + 1, slash2 + n[4]))]
        ELSE [ok |-> FALSE]

\* Greedy groups: two digits are tried before one, the first group first.
GroupSizes ==
    <<<<2, 2, 2, 2>>, <<2, 2, 2, 1>>, <<2, 2, 1, 2>>, <<2, 2, 1, 1>>,
      <<2, 1, 2, 2>>, <<2, 1, 2, 1>>, <<2, 1, 1, 2>>, <<2, 1, 1, 1>>,
      <<1, 2, 2, 2>>, <<1, 2, 2, 1>>, <<1, 2, 1, 2>>, <<1, 2, 1, 1>>,
      <<1, 1, 2, 2>>, <<1, 1, 2, 1>>, <<1, 1, 1, 2>>, <<1, 1, 1, 1>>>>

\* title.match(dateRangeRegex): the leftmost match, [ok |-> FALSE] when none.
MatchDateRange(s) ==
    LET fits(p) == {g \in 1..Len(GroupSizes) : RangeAt(s, p, GroupSizes[g]).ok}
        starts == {p \in 1..Len(s) : fits(p) # {}}
    IN  IF starts = {} THEN [ok |-> FALSE]
        ELSE LET p == CHOOSE q \in starts : \A r \in starts : q <= r
                 g == CHOOSE h \in fits(p) : \A k \in fits(p) : h <= k
             IN  RangeAt(s, p, GroupSizes[g])

\* Lines 70-90: the years tried, in this order.
YearOffsets == <<0, -1, 1>>

\* Lines 71-87 for one year offset.
InRangeSameYear(dateToFind, match, yearOffset) ==
    LET searchYear == dateToFind.y + yearOffset
        startDate == DayNumber(searchYear, match.startMonth - 1, match.startDay)
        endDate == DayNumber(searchYear, match.endMonth - 1, match.endDay)
        target == DayNumber(dateToFind.y, dateToFind.m - 1, dateToFind.d)
    IN  target >= startDate /\ target <= endDate
InRange(dateToFind, match, yearOffset) ==
    LET searchYear == dateToFind.y + yearOffset
        startYear == searchYear
        endYear == IF match.startMonth > match.endMonth THEN startYear + 1 ELSE searchYear
        startDate == DayNumber(startYear, match.startMonth - 1, match.startDay)
        endDate == DayNumber(endYear, match.endMonth - 1, match.endDay)
        target == DayNumber(dateToFind.y, dateToFind.m - 1, dateToFind.d)
    IN  target >= startDate /\ target <= endDate

\* Lines 63-92: the title is returned by the loop.
TitleMatchesWithoutPrefix(dateToFind, title) ==
    LET match == MatchDateRange(title)
    IN  match.ok /\ \E n \in 1..Len(YearOffsets) : InRange(dateToFind, match, YearOffsets[n])
TitleMatches(dateToFind, title) ==
    /\ startsWith(title, SHEET_TITLE_PREFIX)
    /\ LET match == MatchDateRange(title)
       IN  match.ok /\ \E n \in 1..Len(YearOffsets) : InRange(dateToFind, match, YearOffsets[n])

\* The first of the titles for which Test holds, Null when none.
FirstTitle(titles, Test(_)) ==
    IF \E n \in 1..Len(titles) : Test(titles[n])
    THEN Str(titles[CHOOSE n \in 1..Len(titles) :
                        Test(titles[n]) /\ \A m \in 1..(n - 1) : ~Test(titles[m])])
    ELSE Null

\* sheets is the value of metaData.sheets: an array of titles (a sheet without
\* properties.title is Null and reading its title throws).  The result is a
\* title, Null, or an exception.
findSheetNameForDateNoFallback(dateToFind, sheets) ==
    IF sheets.t # "array" THEN [threw |-> TRUE, title |-> Null]
    ELSE LET titles == [n \in 1..Len(sheets.v) |-> ToStr(sheets.v[n])]
             hit(title) == TitleMatches(dateToFind, title)
         IN  [threw |-> FALSE, title |-> FirstTitle(titles, hit)]
findSheetNameForDate(dateToFind, sheets) ==
    IF sheets.t # "array" THEN [threw |-> TRUE, title |-> Null]
    ELSE LET bad == {n \in 1..Len(sheets.v) : sheets.v[n].t # "string"}
             titles == [n \in 1..Len(sheets.v) |->
                           IF n \in bad THEN <<>> ELSE sheets.v[n].v]
             hit(title) == TitleMatches(dateToFind, title)
             prefixed(title) == startsWith(title, SHEET_TITLE_PREFIX)
             found == FirstTitle(titles, hit)
             foundAt == IF found = Null THEN Len(titles) + 1
                        ELSE CHOOSE n \in 1..Len(titles) :
                                hit(titles[n]) /\ \A m \in 1..(n - 1) : ~hit(titles[m])
         IN  IF \E n \in bad : n < foundAt THEN [threw |-> TRUE, title |-> Null]
             ELSE IF found # Null THEN [threw |-> FALSE, title |-> found]
             ELSE [threw |-> FALSE, title |-> FirstTitle(titles, prefixed)]

(***************************************************************************)
(* The availability grid, fetchSheetData lines 240-331.                    *)
(***************************************************************************)
\* constants.TIME_SLOTS: the catalog of time windows of a working day.
TIME_SLOTS ==
    <<[id |-> "ts-1", label |-> <<"8", "a", "m", " ", "-", " ", "1", "0", "a", "m">>],
      [id |-> "ts-2", label |-> <<"1", "0", "a", "m", " ", "-", " ", "1", "2", "p", "m">>],
      [id |-> "ts-3", label |-> <<"1", "2", "p", "m", " ", "-", " ", "2", "p", "m">>],
      [id |-> "ts-4", label |-> <<"2", "p", "m", " ", "-", " ", "4", "p", "m">>]>>

\* Line 261: the keys of timeSlotLabelsToIds, in insertion order.
SlotLabels == [n \in 1..Len(TIME_SLOTS) |-> toLowerCase(trim(TIME_SLOTS[n].label))]
SlotLabel(n) == SlotLabels[n]

\* Line 243: /^(Monday|Tuesday|Wednesday|Thursday|Friday|Saturday|Sunday)/i
Weekdays ==
    <<<<"m", "o", "n", "d", "a", "y">>, <<"t", "u", "e", "s", "d", "a", "y">>,
      <<"w", "e", "d", "n", "e", "s", "d", "a", "y">>,
      <<"t", "h", "u", "r", "s", "d", "a", "y">>, <<"f", "r", "i", "d", "a", "y">>,
      <<"s", "a", "t", "u", "r", "d", "a", "y">>, <<"s", "u", "n", "d", "a", "y">>>>

\* cellAsString.trim().match(dayRegex): match[0], the weekday as the cell
\* writes it, or <<>> when the text starts with no weekday.
MatchDay(text) ==
    IF \E n \in 1..Len(Weekdays) : startsWith(toLowerCase(text), Weekdays[n])
    THEN SubSeq(text, 1, Len(Weekdays[CHOOSE n \in 1..Len(Weekdays) :
                                          startsWith(toLowerCase(text), Weekdays[n])]))
    ELSE <<>>

\* Lines 245-253: the day columns of the header row, colIndex counted from 0.
RECURSIVE DaysFrom(_, _)
DaysFrom(headerRow, index) ==
    IF index >= Len(headerRow) THEN <<>>
    ELSE LET cell == headerRow[index + 1]
             name == IF index > 0 /\ Truthy(cell) THEN MatchDay(trim(ToStr(cell))) ELSE <<>>
         IN  (IF name # <<>> THEN <<[name |-> name, colIndex |-> index]>> ELSE <<>>)
             \o DaysFrom(headerRow, index + 1)

\* Line 273: an ALL-CAPS first column with more than one letter or blank.
IsUpperOrSpace(c) == IsUpper(c) \/ IsSpace(c)
IsDivider(firstCol) ==
    /\ toUpperCase(firstCol) = firstCol
    /\ Len(SelectSeq(firstCol, IsUpperOrSpace)) > 1

\* Line 281: label.replace(/(\s-\s)/, '\\s?-\\s?') + '$', flag i.  The place of
\* the first blank-dash-blank of the label, 0 when it has none.
DashPlace(label) ==
    LET at == {n \in 1..(Len(label) - 2) :
                  IsSpace(label[n]) /\ label[n + 1] = "-" /\ IsSpace(label[n + 2])}
    IN  IF at = {} THEN 0 ELSE CHOOSE n \in at : \A m \in at : n <= m

\* Whether the last len characters of text match the pattern of the label with
\* a blanks before and b blanks after the dash (each 0 or 1).
SuffixFits(text, label, a, b) ==
    LET d == DashPlace(label)
        pre == SubSeq(label, 1, d - 1)
        post == SubSeq(label, d + 3, Len(label))
        len == Len(pre) + a + 1 + b + Len(post)
        from == Len(text) - len
        low == toLowerCase(text)
    IN  /\ from >= 0
        /\ SubSeq(low, from + 1, from + Len(pre)) = pre
        /\ a = 1 => IsSpace(low[from + Len(pre) + 1])
        /\ low[from + Len(pre) + a + 1] = "-"
        /\ b = 1 => IsSpace(low[from + Len(pre) + a + 2])
        /\ SubSeq(low, from + Len(pre) + a + b + 2, Len(low)) = post

\* The lengths of the suffixes of text the label's regular expression matches.
MatchLengths(text, label) ==
    IF DashPlace(label) = 0
    THEN (IF endsWith(toLowerCase(text), label) THEN {Len(label)} ELSE {})
    ELSE {Len(label) - 2 + a + b : <<a, b>> \in
             {ab \in {0, 1} \X {0, 1} : SuffixFits(text, label, ab[1], ab[2])}}

\* labelRegex.test(firstCol)
LabelMatches(firstCol, label) == MatchLengths(firstCol, label) # {}

\* firstCol.replace(labelRegex, ''): the leftmost match is removed.
StripLabel(firstCol, label) ==
    LET lens == MatchLengths(firstCol, label)
        longest == CHOOSE n \in lens : \A m \in lens : m <= n
    IN  SubSeq(firstCol, 1, Len(firstCol) - longest)

\* .replace(/:$/, '')
StripColonKeepsIt(s) == s
StripColon(s) ==
    IF s # <<>> /\ s[Len(s)] = ":" THEN SubSeq(s, 1, Len(s) - 1) ELSE s

\* Lines 312-316: the cell marks the slot unavailable.
\* The checkmark glyph U+2705, one character.
CheckMark == "\\u2705"
isExplicitlyUnavailableUntrimmed(availabilityMark) ==
    LET availabilityMarkStr ==
            IF Nullish(availabilityMark) THEN <<>> ELSE ToStr(availabilityMark)
    IN  \/ availabilityMark = Bool(FALSE)
        \/ toUpperCase(availabilityMarkStr) = <<"F", "A", "L", "S", "E">>
        \/ /\ availabilityMarkStr # <<>>
           /\ toUpperCase(availabilityMarkStr) # <<"T", "R", "U", "E">>
           /\ availabilityMarkStr # <<CheckMark>>
isExplicitlyUnavailable(availabilityMark) ==
    LET availabilityMarkStr ==
            trim(IF Nullish(availabilityMark) THEN <<>> ELSE ToStr(availabilityMark))
    IN  \/ availabilityMark = Bool(FALSE)
        \/ toUpperCase(availabilityMarkStr) = <<"F", "A", "L", "S", "E">>
        \/ /\ availabilityMarkStr # <<>>
           /\ toUpperCase(availabilityMarkStr) # <<"T", "R", "U", "E">>
           /\ availabilityMarkStr # <<CheckMark>>

\* Set.add: a sequence without repetition, in insertion order.
SetAdd(set, x) ==
    IF \E n \in 1..Len(set) : set[n] = x THEN set ELSE Append(set, x)

\* repsMap: the drafts in insertion order; the place of a name, 0 when absent.
DraftPlace(repsMap, repName) ==
    IF \E n \in 1..Len(repsMap) : repsMap[n].name = repName
    THEN CHOOSE n \in 1..Len(repsMap) : repsMap[n].name = repName
    ELSE 0

\* Line 300: Object.fromEntries(days.map(d => [d.name, new Set()]))
EmptySlotsFirstDayOnly(days) == [name \in {days[1].name} |-> <<>>]
EmptySlots(days) == [name \in {days[n].name : n \in 1..Len(days)} |-> <<>>]

\* Lines 306-321: the marks of one time-slot row, day by day.
RECURSIVE MarkDaysClearsOpenCell(_, _, _, _, _)
MarkDaysClearsOpenCell(unavailableSlots, row, days, slotId, n) ==
    IF n > Len(days) THEN unavailableSlots
    ELSE MarkDaysClearsOpenCell(
             IF isExplicitlyUnavailable(At(row, days[n].colIndex))
             THEN [unavailableSlots EXCEPT ![days[n].name] = SetAdd(@, slotId)]
             ELSE [unavailableSlots EXCEPT ![days[n].name] = <<>>],
             row, days, slotId, n + 1)
RECURSIVE MarkDays(_, _, _, _, _)
MarkDays(unavailableSlots, row, days, slotId, n) ==
    IF n > Len(days) THEN unavailableSlots
    ELSE MarkDays(IF isExplicitlyUnavailable(At(row, days[n].colIndex))
                  THEN [unavailableSlots EXCEPT ![days[n].name] = SetAdd(@, slotId)]
                  ELSE unavailableSlots,
                  row, days, slotId, n + 1)

\* The state of the scan: the drafts and currentRepContext (<<>> is null).
ScanStart == [repsMap |-> <<>>, currentRepContext |-> <<>>]

\* Lines 283-324: firstCol matched the label of slot n.
SlotRowCountsHeaderAsRowZero(st, row, rowIndex, firstCol, n, days) ==
    LET own == trim(StripColon(trim(StripLabel(firstCol, SlotLabel(n)))))
        repName == IF own = <<>> /\ st.currentRepContext # <<>>
                   THEN st.currentRepContext ELSE own
        created == IF DraftPlace(st.repsMap, repName) = 0
                   THEN Append(st.repsMap,
                               [name |-> repName,
                                unavailableSlots |-> EmptySlots(days),
                                firstRowIndex |-> rowIndex + 1])
                   ELSE st.repsMap
        at == DraftPlace(created, repName)
    IN  IF repName = <<>> THEN st
        ELSE [repsMap |-> [created EXCEPT ![at].unavailableSlots =
                              MarkDays(@, row, days, TIME_SLOTS[n].id, 1)],
              currentRepContext |-> repName]
SlotRowForNoOne(st, row, rowIndex, firstCol, n, days) ==
    LET own == trim(StripColon(trim(StripLabel(firstCol, SlotLabel(n)))))
        repName == IF own = <<>> /\ st.currentRepContext # <<>>
                   THEN st.currentRepContext ELSE own
        created == IF DraftPlace(st.repsMap, repName) = 0
                   THEN Append(st.repsMap,
                               [name |-> repName,
                                unavailableSlots |-> EmptySlots(days),
                                firstRowIndex |-> rowIndex + 2])
                   ELSE st.repsMap
        at == DraftPlace(created, repName)
    IN  [repsMap |-> [created EXCEPT ![at].unavailableSlots =
                         MarkDays(@, row, days, TIME_SLOTS[n].id, 1)],
         currentRepContext |-> repName]
SlotRow(st, row, rowIndex, firstCol, n, days) ==
    LET own == trim(StripColon(trim(StripLabel(firstCol, SlotLabel(n)))))
        repName == IF own = <<>> /\ st.currentRepContext # <<>>
                   THEN st.currentRepContext ELSE own
        created == IF DraftPlace(st.repsMap, repName) = 0
                   THEN Append(st.repsMap,
                               [name |-> repName,
                                unavailableSlots |-> EmptySlots(days),
                                firstRowIndex |-> rowIndex + 2])
                   ELSE st.repsMap
        at == DraftPlace(created, repName)
    IN  IF repName = <<>> THEN st
        ELSE [repsMap |-> [created EXCEPT ![at].unavailableSlots =
                              MarkDays(@, row, days, TIME_SLOTS[n].id, 1)],
              currentRepContext |-> repName]

\* Lines 328-330: firstCol matched no label; it announces a name.
BareNameRowIgnored(st, firstCol) == st
BareNameRowCreatesDraft(st, firstCol) ==
    [repsMap |-> Append(st.repsMap,
                        [name |-> trim(StripColon(firstCol)),
                         unavailableSlots |->
                             [name \in {<<"M", "o", "n", "d", "a", "y">>,
                                        <<"T", "u", "e", "s", "d", "a", "y">>} |-> <<>>],
                         firstRowIndex |-> 2]),
     currentRepContext |-> trim(StripColon(firstCol))]
BareNameRow(st, firstCol) ==
    [st EXCEPT !.currentRepContext = trim(StripColon(firstCol))]

\* Lines 266-331: one data row, rowIndex counted from 0.
ScanRowKeepsContext(st, row, rowIndex, days) ==
    LET cell == IF Nullish(row) THEN Undefined ELSE At(row, 0)
        firstCol == trim(IF Truthy(cell) THEN ToStr(cell) ELSE <<>>)
        hits == {n \in 1..Len(TIME_SLOTS) : LabelMatches(firstCol, SlotLabel(n))}
    IN  IF firstCol = <<>> \/ IsDivider(firstCol) THEN st
        ELSE IF hits # {}
             THEN SlotRow(st, row, rowIndex, firstCol,
                          CHOOSE n \in hits : \A m \in hits : n <= m, days)
             ELSE BareNameRow(st, firstCol)
ScanRow(st, row, rowIndex, days) ==
    LET cell == IF Nullish(row) THEN Undefined ELSE At(row, 0)
        firstCol == trim(IF Truthy(cell) THEN ToStr(cell) ELSE <<>>)
        hits == {n \in 1..Len(TIME_SLOTS) : LabelMatches(firstCol, SlotLabel(n))}
    IN  IF firstCol = <<>> THEN [st EXCEPT !.currentRepContext = <<>>]
        ELSE IF IsDivider(firstCol) THEN [st EXCEPT !.currentRepContext = <<>>]
        ELSE IF hits # {}
             THEN SlotRow(st, row, rowIndex, firstCol,
                          CHOOSE n \in hits : \A m \in hits : n <= m, days)
             ELSE BareNameRow(st, firstCol)

\* Line 266: the for loop over dataRows; each row works on the state the row
\* before left.
RECURSIVE ScanRows(_, _, _, _)
ScanRows(st, dataRows, rowIndex, days) ==
    IF rowIndex >= Len(dataRows) THEN st
    ELSE CHOOSE end \in {ScanRows(after, dataRows, rowIndex + 1, days) :
                             after \in {ScanRow(st, dataRows[rowIndex + 1], rowIndex, days)}} :
            TRUE

(***************************************************************************)
(* The Rep list, fetchSheetData lines 233-388.                             *)
(***************************************************************************)
\* A property that is present, wrapped to tell it from undefined.
Obj(v) == [t |-> "object", v |-> v]

\* Map.get(key): undefined when the key is absent.
MapGet(m, k) == IF MapHas(m, k) THEN Obj(m[k]) ELSE Undefined

\* Lines 360-367
RegionNorthFrom118(firstRowIndex) ==
    IF firstRowIndex >= 2 /\ firstRowIndex < 118 THEN "PHX"
    ELSE IF firstRowIndex >= 118 /\ firstRowIndex <= 135 THEN "NORTH"
    ELSE IF firstRowIndex >= 136 /\ firstRowIndex <= 152 THEN "SOUTH"
    ELSE "UNKNOWN"
Region(firstRowIndex) ==
    IF firstRowIndex >= 2 /\ firstRowIndex <= 118 THEN "PHX"
    ELSE IF firstRowIndex >= 119 /\ firstRowIndex <= 135 THEN "NORTH"
    ELSE IF firstRowIndex >= 136 /\ firstRowIndex <= 152 THEN "SOUTH"
    ELSE "UNKNOWN"

\* Lines 338-344: the abbreviations of the days with an open slot.
AvailableDaysEveryDay(repData, days, n) ==
    [k \in 1..Len(days) |->
        SubSeq(days[k].name, 1, IF Len(days[k].name) < 3 THEN Len(days[k].name) ELSE 3)]
RECURSIVE AvailableDays(_, _, _)
AvailableDays(repData, days, n) ==
    IF n > Len(days) THEN <<>>
    ELSE (IF Len(repData.unavailableSlots[days[n].name]) < Len(TIME_SLOTS)
          THEN <<SubSeq(days[n].name, 1, IF Len(days[n].name) < 3 THEN Len(days[n].name) ELSE 3)>>
          ELSE <<>>)
         \o AvailableDays(repData, days, n + 1)

\* parts.join(', ')
RECURSIVE Join(_)
Join(parts) ==
    IF parts = <<>> THEN <<>>
    ELSE IF Len(parts) = 1 THEN parts[1]
    ELSE parts[1] \o <<",", " ">> \o Join(Tail(parts))

NotAvailable == <<"N", "o", "t", " ", "a", "v", "a", "i", "l", "a", "b", "l", "e">>

\* Line 346: availableDaysSummary.join(', ') || 'Not available'
Availability(repData, days) ==
    LET joined == Join(AvailableDays(repData, days, 1))
    IN  IF joined = <<>> THEN NotAvailable ELSE joined

\* name.replace(/\s+/g, '-')
RECURSIVE Slug(_)
Slug(name) ==
    IF name = <<>> THEN <<>>
    ELSE IF IsSpace(Head(name)) THEN <<"-">> \o Slug(trimStart(name))
    ELSE <<Head(name)>> \o Slug(Tail(name))

\* Lines 337-379: the Rep of the draft at index (counted from 0).
AssembleRep(repData, index, days, skillsMap, rankingsMap) ==
    LET normalizedName == normalizeName(repData.name)
        repInfo == MapGet(skillsMap, normalizedName)
    IN  [id |-> <<"r", "e", "p", "-">> \o NatToString(index + 1) \o <<"-">>
                \o Slug(repData.name),
         name |-> repData.name,
         availability |-> Availability(repData, days),
         unavailableSlots |-> repData.unavailableSlots,
         skills |-> IF repInfo = Undefined THEN Undefined ELSE Obj(repInfo.v.skills),
         zipCodes |-> IF repInfo = Undefined THEN Undefined ELSE Obj(repInfo.v.zipCodes),
         region |-> Region(repData.firstRowIndex),
         salesRank |-> MapGet(rankingsMap, normalizedName)]

AssembleRepsCountedFromZero(repsMap, days, skillsMap, rankingsMap) ==
    [n \in 1..Len(repsMap) |->
        AssembleRep(repsMap[n], n - 2, days, skillsMap, rankingsMap)]

AssembleReps(repsMap, days, skillsMap, rankingsMap) ==
    [n \in 1..Len(repsMap) |->
        AssembleRep(repsMap[n], n - 1, days, skillsMap, rankingsMap)]

\* Lines 233-331 on data.values: "short" (fewer than two rows), "threw" (a
\* TypeError), "nodays" (no day header) or "parsed" with the days and drafts.
ParseGrid(values) ==
    IF ~Truthy(values) \/ (HasLength(values) /\ LengthOf(values) < 2)
    THEN [kind |-> "short"]
    ELSE IF values.t # "array" \/ At(values, 0).t # "array" THEN [kind |-> "threw"]
    ELSE LET days == DaysFrom(values.v[1].v, 0)
         IN  IF days = <<>> THEN [kind |-> "nodays"]
             ELSE [kind |-> "parsed", days |-> days,
                   repsMap |-> ScanRows(ScanStart, Tail(values.v), 0, days).repsMap]

\* mockData.MOCK_REPS_DATA, the synthetic dataset.
MOCK_REPS_DATA ==
    <<[id |-> <<"m", "o", "c", "k", "-", "1">>, name |-> <<"M", "o", "c", "k", " ", "A">>],
      [id |-> <<"m", "o", "c", "k", "-", "2">>, name |-> <<"M", "o", "c", "k", " ", "B">>]>>

MockData == <<"M", "o", "c", "k", " ", "D", "a", "t", "a">>

\* { reps: MOCK_REPS_DATA.map(rep => ({...rep, isMock: true})), sheetName: 'Mock Data' }
MockResult ==
    [reps |-> [n \in 1..Len(MOCK_REPS_DATA) |->
                  [id |-> MOCK_REPS_DATA[n].id, name |-> MOCK_REPS_DATA[n].name,
                   isMock |-> TRUE]],
     sheetName |-> MockData]

(***************************************************************************)
(* The loaders fetchRepSkills and fetchSalesRankings as tasks.  A loader   *)
(* is [pc, invoked, map, caught]: pc is "idle", "fetch" (awaiting          *)
(* fetchWithRetry), "json" (awaiting response.json()), "resolved" or       *)
(* "rejected"; invoked counts its calls; map is skillsMap / rankMap;       *)
(* caught tells that its catch block ran.                                  *)
(***************************************************************************)
IdleLoader == [pc |-> "idle", invoked |-> 0, map |-> EmptyMap, caught |-> FALSE]

\* Lines 148-151 and 111-114: the loader is called and awaits fetchWithRetry.
LoaderCalled(ld) == [ld EXCEPT !.pc = "fetch", !.invoked = @ + 1, !.map = EmptyMap]

\* Lines 151-156 and 114-119: fetchWithRetry settled.
LoaderSettledRejects(ld, call) ==
    IF call.pc = "threw" THEN [ld EXCEPT !.pc = "resolved", !.caught = TRUE]
    ELSE IF ~IsOk(call.response[1]) THEN [ld EXCEPT !.pc = "rejected"]
    ELSE [ld EXCEPT !.pc = "json"]
LoaderSettled(ld, call) ==
    IF call.pc = "threw" THEN [ld EXCEPT !.pc = "resolved", !.caught = TRUE]
    ELSE IF ~IsOk(call.response[1]) THEN [ld EXCEPT !.pc = "resolved"]
    ELSE [ld EXCEPT !.pc = "json"]

\* Lines 156-195 and 119-143: response.json() settled; a body is
\* [json |-> FALSE] when reading it fails, else [json |-> TRUE, values |-> v].
\* The catch block logs and the function returns the map as built so far.
LoaderBodyRead(ld, body, parsed) ==
    IF ~body.json THEN [ld EXCEPT !.pc = "resolved", !.caught = TRUE]
    ELSE [ld EXCEPT !.pc = "resolved", !.map = parsed[body].map,
                    !.caught = parsed[body].threw]

(***************************************************************************)
(* What the network answers in a query.                                    *)
(***************************************************************************)
QueryStatuses == {200, 404, 503}
\* At most MaxFaults attempts of a query end in a retryable response or a
\* rejection.
MaxFaults == 4
QueryErrors == {"ECONNRESET"}

Chars(a, b) == a \o <<" ">> \o b
JaneDoe == <<"J", "a", "n", "e", " ", "D", "o", "e">>
SamLee == <<"S", "a", "m", " ", "L", "e", "e">>
Monday == <<"M", "o", "n", "d", "a", "y", " ", "1", "0", "/", "2", "7">>
Tuesday == <<"T", "u", "e", "s", "d", "a", "y", " ", "1", "0", "/", "2", "8">>
RepHeader == <<"R", "e", "p">>
Booked == <<"b", "o", "o", "k", "e", "d">>

InvalidBody == [json |-> FALSE]
Values(v) == [json |-> TRUE, values |-> v]
Sheets(v) == [json |-> TRUE, sheets |-> v]

\* 2024-01-02 lies in "12/30 - 1/5", 2024-01-08 in "1/6 - 1/12".
Dates == {[y |-> 2024, m |-> 1, d |-> 2], [y |-> 2024, m |-> 1, d |-> 8]}

TitleDec == SHEET_TITLE_PREFIX \o <<" ", "1", "2", "/", "3", "0", " ", "-", " ", "1", "/", "5">>
TitleJan == SHEET_TITLE_PREFIX \o <<" ", "1", "/", "6", " ", "-", " ", "1", "/", "1", "2">>
TitleOther == <<"A", "p", "p", "o", "i", "n", "t", "m", "e", "n", "t", "s">>

\* Metadata bodies: two schedule sheets; no schedule sheet; no sheets
\* property; a body that is no JSON.
MetaBodies ==
    {Sheets(Arr(<<Str(TitleOther), Str(TitleDec), Str(TitleJan)>>)),
     Sheets(Arr(<<Str(TitleOther)>>)),
     Sheets(Undefined),
     InvalidBody}

HeaderRow == Arr(<<Str(RepHeader), Str(Monday), Str(Tuesday)>>)
\* A header row with one day column and one time-slot row of Sam Lee whose
\* cell under the day is empty.
SamLeeGrid ==
    Values(Arr(<<Arr(<<Str(RepHeader), Str(Monday)>>),
                 Arr(<<Str(SamLee \o <<":", " ">> \o TIME_SLOTS[1].label), Str(<<>>)>>)>>))
\* Grid bodies: the grid of Sam Lee; two reps; rows that yield no rep; a
\* header alone without day column; two rows without day column; no values;
\* a header row that is null; a body that is no JSON.
GridBodies ==
    {SamLeeGrid,
     Values(Arr(<<HeaderRow,
                  Arr(<<Str(JaneDoe)>>),
                  Arr(<<Str(TIME_SLOTS[2].label), Str(<<>>), Bool(FALSE)>>),
                  Arr(<<Str(SamLee \o <<":", " ">> \o TIME_SLOTS[1].label),
                        Bool(TRUE), Str(Booked)>>)>>)),
     Values(Arr(<<HeaderRow, Arr(<<Str(<<"P", "H", "X">>)>>), Arr(<<Str(JaneDoe)>>)>>)),
     Values(Arr(<<Arr(<<Str(RepHeader)>>)>>)),
     Values(Arr(<<Arr(<<Str(RepHeader), Str(Booked)>>),
                  Arr(<<Str(Chars(JaneDoe, TIME_SLOTS[2].label)), Str(Booked)>>)>>)),
     Values(Undefined),
     Values(Arr(<<Null, Arr(<<Str(JaneDoe)>>)>>)),
     InvalidBody}

SkillsHeader ==
    Arr(<<Str(<<"N", "a", "m", "e">>), Str(<<"R", "o", "o", "f">>),
          Str(<<"Z", "i", "p", " ", "C", "o", "d", "e", "s">>)>>)
\* Skills bodies: two persons; a row whose name is a number after a good row;
\* a body that is no JSON.
SkillsGood ==
    Values(Arr(<<SkillsHeader,
                 Arr(<<Str(<<"j", "a", "n", "e", " ", "d", "o", "e">>), Str(<<"3">>),
                       Str(<<"8", "5", "0", "0", "1", ",", " ", "8", "5", "0", "0", "2">>)>>),
                 Arr(<<Str(SamLee), Str(<<"x">>), Str(<<>>)>>)>>))
SkillsBodies ==
    {SkillsGood,
     Values(Arr(<<SkillsHeader, Arr(<<Str(SamLee), Str(<<"2">>)>>),
                  Arr(<<Num(7), Str(<<"1">>)>>)>>)),
     InvalidBody}

\* Rank bodies: two names; values that is no array; a body that is no JSON.
RanksBodies ==
    {Values(Arr(<<Arr(<<Str(SamLee)>>), Arr(<<Str(JaneDoe)>>)>>)),
     Values(Num(1)),
     InvalidBody}

LoaderBodies(l) == IF l = "skills" THEN SkillsBodies ELSE RanksBodies

\* What the parsers make of the bodies above.
Json(bodies) == {b \in bodies : b.json}
SkillsParsed == [b \in Json(SkillsBodies) |-> ParseSkills(b.values)]
RanksParsed == [b \in Json(RanksBodies) |-> ParseRanks(b.values)]
SheetFound == [d \in Dates |-> [b \in Json(MetaBodies) |-> findSheetNameForDate(d, b.sheets)]]
GridParsed == [b \in Json(GridBodies) |-> ParseGrid(b.values)]

fetchRepSkillsBody(ld, body) == LoaderBodyRead(ld, body, SkillsParsed)
fetchSalesRankingsBody(ld, body) == LoaderBodyRead(ld, body, RanksParsed)

(***************************************************************************)
(* State.                                                                  *)
(*   solo, log   one observed fetchWithRetry call and what it did to its   *)
(*               environment, in order: the fetch calls it issued, what    *)
(*               each resolved with, the sleeps it began                   *)
(*   USE_MOCK_DATA_ON_FAILURE, date   the configuration flag and the       *)
(*               argument of a fetchSheetData query                        *)
(*   calls       the query's four fetchWithRetry calls                     *)
(*   started     the calls in the order of their first request             *)
(*   loaders     the tasks fetchRepSkills and fetchSalesRankings           *)
(*   main        the task fetchSheetData: pc, its locals, what it returned *)
(*               and what it threw                                         *)
(*   console     the messages logged, as a set of tags                     *)
(*   input, output   the arguments of one call of a function of the        *)
(*               service, and what it has computed from them               *)
(***************************************************************************)
VARIABLES solo, log, USE_MOCK_DATA_ON_FAILURE, date, calls, started, loaders,
          main, console, input, output

retryVars == <<solo, log>>
queryVars == <<USE_MOCK_DATA_ON_FAILURE, date, calls, started, loaders, main, console>>
vars == <<solo, log, USE_MOCK_DATA_ON_FAILURE, date, calls, started, loaders, main, console,
          input, output>>

CallIds == {"skills", "ranks", "meta", "grid"}
Loaders == {"skills", "ranks"}

IdleMain ==
    [pc |-> "init", sheetName |-> <<>>, sheets |-> Undefined, values |-> Undefined,
     grid |-> [kind |-> "none"], skillsMap |-> EmptyMap, reps |-> Undefined,
     caught |-> <<>>, returned |-> <<>>, thrown |-> <<>>]

QueryIdle ==
    /\ calls = [c \in CallIds |-> IdleCall]
    /\ started = <<>>
    /\ loaders = [l \in Loaders |-> IdleLoader]
    /\ main = IdleMain
    /\ console = {}

Req == [k |-> "req"]
Resp(status) == [k |-> "resp", st |-> status]
Fail(error) == [k |-> "fail", err |-> error]
Slept(ms) == [k |-> "sleep", ms |-> ms]

\* What the environment sees of a step from call state c to d.
Effects(c, d) ==
    (IF Sleeping(d) /\ d.nsleep > c.nsleep THEN <<Slept(d.sleepMs)>> ELSE <<>>)
    \o (IF d.nreq > c.nreq THEN <<Req>> ELSE <<>>)

InitRetry ==
    /\ solo = IdleCall
    /\ log = <<>>
    /\ USE_MOCK_DATA_ON_FAILURE = FALSE
    /\ date = [y |-> 2024, m |-> 1, d |-> 2]
    /\ QueryIdle
    /\ input = <<>>
    /\ output = <<>>

\* fetchWithRetry(url, retries, initialDelay) is called.
SoloCall ==
    /\ solo.pc = "idle"
    /\ \E r \in 0..MaxRetries, d \in InitialDelays :
          /\ solo' = fetchWithRetry(r, d)
          /\ log' = log \o Effects(solo, solo')
    /\ UNCHANGED <<queryVars, input, output>>

\* The pending fetch(url) resolves with a response.
SoloRespond ==
    /\ solo.pc = "fetch"
    /\ \E st \in Statuses :
          /\ solo' = OnResponse(solo, st)
          /\ log' = log \o <<Resp(st)>> \o Effects(solo, solo')
    /\ UNCHANGED <<queryVars, input, output>>

\* The pending fetch(url) rejects.
SoloFail ==
    /\ solo.pc = "fetch"
    /\ \E e \in TransportErrors :
          /\ solo' = OnThrow(solo, e)
          /\ log' = log \o <<Fail(e)>> \o Effects(solo, solo')
    /\ UNCHANGED <<queryVars, input, output>>

\* The pending sleep(currentDelay) resolves.
SoloWake ==
    /\ Sleeping(solo)
    /\ solo' = OnWake(solo)
    /\ log' = log \o Effects(solo, solo')
    /\ UNCHANGED <<queryVars, input, output>>

NextRetry == SoloCall \/ SoloRespond \/ SoloFail \/ SoloWake

SpecRetry == InitRetry /\ [][NextRetry]_vars

(***************************************************************************)
(* fetchSheetData(date) as a task.  Each action is one run of the task     *)
(* between two awaits.                                                     *)
(***************************************************************************)
InitQuery ==
    /\ solo = IdleCall
    /\ log = <<>>
    /\ USE_MOCK_DATA_ON_FAILURE \in BOOLEAN
    /\ date \in Dates
    /\ QueryIdle
    /\ input = <<>>
    /\ output = <<>>

Finish(m, result) == [m EXCEPT !.pc = "returned", !.returned = Append(@, result)]

\* Lines 381-388: the result of a parsed grid.
AssembledMockWhenEmpty(reps, sheetName) ==
    IF reps = <<>> THEN MockResult ELSE [reps |-> reps, sheetName |-> sheetName]
Assembled(reps, sheetName) ==
    IF reps = <<>> /\ USE_MOCK_DATA_ON_FAILURE THEN MockResult
    ELSE [reps |-> reps, sheetName |-> sheetName]

\* Lines 390-398: the catch block of fetchSheetData.
CatchRethrows(m, error) ==
    [m EXCEPT !.pc = "threw", !.caught = <<error>>, !.thrown = Append(@, error)]
Catch(m, error) ==
    IF USE_MOCK_DATA_ON_FAILURE
    THEN Finish([m EXCEPT !.caught = <<error>>], MockResult)
    ELSE [m EXCEPT !.pc = "threw", !.caught = <<error>>, !.thrown = Append(@, error)]
CatchLogs == {"error:fetchSheetData"} \cup
             (IF USE_MOCK_DATA_ON_FAILURE THEN {"warn:fallback"} ELSE {})

Caught(error) ==
    /\ main' = Catch(main, error)
    /\ console' = console \cup CatchLogs
    /\ UNCHANGED <<calls, started, loaders>>

\* Lines 208-213: both loaders are called, then the metadata request.
StartedFirst == <<"skills", "ranks", "meta">>
QueryStart ==
    /\ main.pc = "init"
    /\ calls' = [c \in CallIds |->
                   IF c \in {StartedFirst[n] : n \in 1..Len(StartedFirst)}
                   THEN fetchWithRetry(DefaultRetries, DefaultInitialDelay)
                   ELSE calls[c]]
    /\ started' = started \o StartedFirst
    /\ loaders' = [l \in Loaders |->
                     IF l \in {StartedFirst[n] : n \in 1..Len(StartedFirst)}
                     THEN LoaderCalled(loaders[l]) ELSE loaders[l]]
    /\ main' = [main EXCEPT !.pc = "awaitMeta"]
    /\ UNCHANGED <<input, output, solo, log, USE_MOCK_DATA_ON_FAILURE, date, console>>

\* The attempts of call c that ended in a retryable response or a rejection.
Faults(c) ==
    c.nsleep + (IF c.pc = "threw" \/ (c.pc = "returned" /\ ~ShouldReturn(c.response[1]))
                THEN 1 ELSE 0)
QueryFaults ==
    Faults(calls["skills"]) + Faults(calls["ranks"]) + Faults(calls["meta"])
    + Faults(calls["grid"])

\* fetch(url) of call c resolves with a response.
NetRespond(c) ==
    /\ calls[c].pc = "fetch"
    /\ \E st \in QueryStatuses :
          /\ ShouldReturn(st) \/ QueryFaults < MaxFaults
          /\ calls' = [calls EXCEPT ![c] = OnResponse(@, st)]
    /\ UNCHANGED <<input, output, solo, log, USE_MOCK_DATA_ON_FAILURE, date, started, loaders, main, console>>

NetFailSharedBackoff(c) ==
    /\ calls[c].pc = "fetch"
    /\ QueryFaults < MaxFaults
    /\ \E e \in QueryErrors :
          calls' = [d \in CallIds |->
                      IF d = c THEN OnThrow(calls[d], e)
                      ELSE [calls[d] EXCEPT !.currentDelay = NextDelay(@)]]
    /\ UNCHANGED <<input, output, solo, log, USE_MOCK_DATA_ON_FAILURE, date, started, loaders, main, console>>

\* fetch(url) of call c rejects.
NetFail(c) ==
    /\ calls[c].pc = "fetch"
    /\ QueryFaults < MaxFaults
    /\ \E e \in QueryErrors : calls' = [calls EXCEPT ![c] = OnThrow(@, e)]
    /\ UNCHANGED <<input, output, solo, log, USE_MOCK_DATA_ON_FAILURE, date, started, loaders, main, console>>

\* sleep(currentDelay) of call c resolves.
NetWake(c) ==
    /\ Sleeping(calls[c])
    /\ calls' = [calls EXCEPT ![c] = OnWake(@)]
    /\ UNCHANGED <<input, output, solo, log, USE_MOCK_DATA_ON_FAILURE, date, started, loaders, main, console>>

LoaderLogs(l, before, after) ==
    (IF after.caught /\ ~before.caught THEN {"error:" \o l} ELSE {})
    \cup (IF after.pc = "resolved" /\ ~after.caught /\ before.pc = "fetch"
          THEN {"error:" \o l} ELSE {})

\* Loader l resumes after await fetchWithRetry(url).
LoaderResume(l) ==
    /\ loaders[l].pc = "fetch"
    /\ Finished(calls[l])
    /\ loaders' = [loaders EXCEPT ![l] = LoaderSettled(@, calls[l])]
    /\ console' = console \cup LoaderLogs(l, loaders[l], loaders'[l])
    /\ UNCHANGED <<input, output, solo, log, USE_MOCK_DATA_ON_FAILURE, date, calls, started, main>>

\* Loader l resumes after await response.json().
LoaderBody(l) ==
    /\ loaders[l].pc = "json"
    /\ \E body \in LoaderBodies(l) :
          loaders' = [loaders EXCEPT ![l] =
                         IF l = "skills" THEN fetchRepSkillsBody(@, body)
                         ELSE fetchSalesRankingsBody(@, body)]
    /\ console' = console \cup LoaderLogs(l, loaders[l], loaders'[l])
    /\ UNCHANGED <<input, output, solo, log, USE_MOCK_DATA_ON_FAILURE, date, calls, started, main>>

\* Lines 213-217: the metadata fetchWithRetry settled.
MetaResume ==
    /\ main.pc = "awaitMeta"
    /\ Finished(calls["meta"])
    /\ IF calls["meta"].pc = "threw" THEN Caught(calls["meta"].error)
       ELSE IF ~IsOk(calls["meta"].response[1]) THEN Caught("Failed to fetch spreadsheet metadata")
       ELSE /\ main' = [main EXCEPT !.pc = "awaitMetaJson"]
            /\ UNCHANGED <<calls, started, loaders, console>>
    /\ UNCHANGED <<input, output, solo, log, USE_MOCK_DATA_ON_FAILURE, date>>

\* Lines 217-228: the metadata body is read, the sheet is chosen and the grid
\* is requested.
GridRequestedAlways(found) == TRUE
GridRequested(found) == found.title # Null
MetaBody ==
    /\ main.pc = "awaitMetaJson"
    /\ \E body \in MetaBodies :
          IF ~body.json THEN Caught("SyntaxError")
          ELSE \E found \in {SheetFound[date][body]} :
                   IF found.threw THEN Caught("TypeError")
                   ELSE IF ~GridRequested(found)
                   THEN /\ main' = Catch([main EXCEPT !.sheets = body.sheets],
                                         "Could not find a sheet")
                        /\ console' = console \cup CatchLogs
                        /\ UNCHANGED <<calls, started, loaders>>
                   ELSE /\ main' = [main EXCEPT !.pc = "awaitGrid",
                                                !.sheets = body.sheets,
                                                !.sheetName = ToStr(found.title)]
                        /\ calls' = [calls EXCEPT !["grid"] =
                                        fetchWithRetry(DefaultRetries, DefaultInitialDelay)]
                        /\ started' = Append(started, "grid")
                        /\ UNCHANGED <<loaders, console>>
    /\ UNCHANGED <<input, output, solo, log, USE_MOCK_DATA_ON_FAILURE, date>>

\* Lines 228-232: the grid fetchWithRetry settled.
GridResume ==
    /\ main.pc = "awaitGrid"
    /\ Finished(calls["grid"])
    /\ IF calls["grid"].pc = "threw" THEN Caught(calls["grid"].error)
       ELSE IF ~IsOk(calls["grid"].response[1]) THEN Caught("Failed to fetch sheet data")
       ELSE /\ main' = [main EXCEPT !.pc = "awaitGridJson"]
            /\ UNCHANGED <<calls, started, loaders, console>>
    /\ UNCHANGED <<input, output, solo, log, USE_MOCK_DATA_ON_FAILURE, date>>

\* Lines 232-333: the grid body is read and scanned.
GridBody ==
    /\ main.pc = "awaitGridJson"
    /\ \E body \in GridBodies :
          IF ~body.json THEN Caught("SyntaxError")
          ELSE \E g \in {GridParsed[body]} :
               \E m \in {[main EXCEPT !.values = body.values, !.grid = g]} :
                   CASE g.kind = "short" ->
                          /\ main' = Finish(m, IF USE_MOCK_DATA_ON_FAILURE THEN MockResult
                                               ELSE [reps |-> <<>>, sheetName |-> m.sheetName])
                          /\ console' = console \cup {"warn:no-data"}
                          /\ UNCHANGED <<calls, started, loaders>>
                     [] g.kind = "threw" ->
                          /\ main' = Catch(m, "TypeError")
                          /\ console' = console \cup CatchLogs
                          /\ UNCHANGED <<calls, started, loaders>>
                     [] g.kind = "nodays" ->
                          /\ main' = Catch(m, "Could not find any valid day columns")
                          /\ console' = console \cup CatchLogs
                          /\ UNCHANGED <<calls, started, loaders>>
                     [] g.kind = "parsed" ->
                          /\ main' = [m EXCEPT !.pc = "awaitSkills"]
                          /\ UNCHANGED <<calls, started, loaders, console>>
    /\ UNCHANGED <<input, output, solo, log, USE_MOCK_DATA_ON_FAILURE, date>>

\* Line 333: await skillsPromise.
SkillsAwaited ==
    /\ main.pc = "awaitSkills"
    /\ loaders["skills"].pc \in {"resolved", "rejected"}
    /\ IF loaders["skills"].pc = "rejected" THEN Caught("skills")
       ELSE /\ main' = [main EXCEPT !.pc = "awaitRanks",
                                    !.skillsMap = loaders["skills"].map]
            /\ UNCHANGED <<calls, started, loaders, console>>
    /\ UNCHANGED <<input, output, solo, log, USE_MOCK_DATA_ON_FAILURE, date>>

\* Lines 334-388: await ranksPromise, then the reps are assembled and
\* returned.
RanksReadyAtOnce(ld) == TRUE
RanksReady(ld) == ld.pc \in {"resolved", "rejected"}
RanksAwaited ==
    /\ main.pc = "awaitRanks"
    /\ RanksReady(loaders["ranks"])
    /\ IF loaders["ranks"].pc = "rejected" THEN Caught("ranks")
       ELSE \E reps \in {AssembleReps(main.grid.repsMap, main.grid.days,
                                       main.skillsMap, loaders["ranks"].map)} :
                /\ main' = Finish([main EXCEPT !.reps = Arr(reps)],
                                  Assembled(reps, main.sheetName))
                /\ console' = console \cup (IF reps = <<>> THEN {"warn:no-reps"} ELSE {})
                /\ UNCHANGED <<calls, started, loaders>>
    /\ UNCHANGED <<input, output, solo, log, USE_MOCK_DATA_ON_FAILURE, date>>

Next ==
    \/ QueryStart
    \/ \E c \in CallIds : NetRespond(c)
    \/ \E c \in CallIds : NetFail(c)
    \/ \E c \in CallIds : NetWake(c)
    \/ \E l \in Loaders : LoaderResume(l)
    \/ \E l \in Loaders : LoaderBody(l)
    \/ MetaResume
    \/ MetaBody
    \/ GridResume
    \/ GridBody
    \/ SkillsAwaited
    \/ RanksAwaited

Spec == InitQuery /\ [][Next]_vars

\* The same query when every pending request, sleep and body read completes
\* and every task that can resume does: no step that stays possible is put
\* off for ever.
InitFair ==
    /\ InitQuery
    /\ ~USE_MOCK_DATA_ON_FAILURE
    /\ date = [y |-> 2024, m |-> 1, d |-> 2]
SpecFair == InitFair /\ [][Next]_vars /\ WF_vars(Next)

(***************************************************************************)
(* The functions of the service called on their own: input holds the       *)
(* arguments, output what the function has computed.  Nothing else of the  *)
(* service runs.                                                           *)
(***************************************************************************)
ServiceIdle ==
    /\ solo = IdleCall
    /\ log = <<>>
    /\ USE_MOCK_DATA_ON_FAILURE = FALSE
    /\ date = [y |-> 2024, m |-> 1, d |-> 2]
    /\ QueryIdle
serviceVars == <<solo, log, USE_MOCK_DATA_ON_FAILURE, date, calls, started, loaders,
                 main, console>>

(***************************************************************************)
(* The row scan of fetchSheetData, lines 240-379, row by row: input is the *)
(* header row and the data rows read so far, output the days, the scan     *)
(* state after these rows and, once the loop has ended, the Rep list.      *)
(***************************************************************************)
\* No scan reads more than MaxRows data rows.
MaxRows == 4

ScanHeaders == {Arr(<<Str(RepHeader), Str(Monday)>>), HeaderRow}
\* Data rows: a bare name; a blank first column; a named slot row with an
\* empty cell; a named slot row with both days marked; three rows of a label
\* alone; a label alone in capitals, which line 273 takes for a divider.
RowJane == Arr(<<Str(JaneDoe)>>)
RowBlank == Arr(<<Str(<<" ">>), Bool(FALSE)>>)
RowSamEmpty == Arr(<<Str(SamLee \o <<":", " ">> \o TIME_SLOTS[1].label), Str(<<>>)>>)
RowSamBoth == Arr(<<Str(Chars(SamLee, TIME_SLOTS[1].label)), Bool(FALSE), Bool(FALSE)>>)
RowSlot2 == Arr(<<Str(TIME_SLOTS[2].label), Bool(FALSE), Bool(TRUE)>>)
RowSlot3 == Arr(<<Str(TIME_SLOTS[3].label), Bool(FALSE), Str(Booked)>>)
RowSlot4 == Arr(<<Str(TIME_SLOTS[4].label), Bool(FALSE)>>)
RowCaps == Arr(<<Str(toUpperCase(TIME_SLOTS[2].label)), Bool(FALSE)>>)
ScanRowChoices ==
    {RowJane, RowBlank, RowSamEmpty, RowSamBoth, RowSlot2, RowSlot3, RowSlot4,
     RowCaps}

\* Lines 240-264: the header is parsed and the scan begins.
InitScan ==
    /\ ServiceIdle
    /\ \E headerRow \in ScanHeaders :
          /\ input = [headerRow |-> headerRow, dataRows |-> <<>>]
          /\ output = [days |-> DaysFrom(headerRow.v, 0), st |-> ScanStart,
                       reps |-> Undefined]

\* Lines 266-331: one turn of the loop, on the next data row.
ScanNextRow ==
    /\ output.reps = Undefined
    /\ Len(input.dataRows) < MaxRows
    /\ \E row \in ScanRowChoices :
          /\ input' = [input EXCEPT !.dataRows = Append(@, row)]
          /\ output' = [output EXCEPT !.st =
                           ScanRow(@, row, Len(input.dataRows), output.days)]
    /\ UNCHANGED serviceVars

\* Lines 333-379: the loop has ended and the Rep list is built.
ScanAssemble ==
    /\ output.reps = Undefined
    /\ output' = [output EXCEPT !.reps =
                     Arr(AssembleReps(output.st.repsMap, output.days,
                                      SkillsParsed[SkillsGood].map, EmptyMap))]
    /\ UNCHANGED <<serviceVars, input>>

NextScan == ScanNextRow \/ ScanAssemble

SpecScan == InitScan /\ [][NextScan]_vars

(***************************************************************************)
(* One call of a function of the service: input holds the name of the      *)
(* function and its arguments, output is undefined until the function has  *)
(* returned and its value afterwards.                                      *)
(***************************************************************************)
\* Cells of the sheet as the values API delivers them.
Marks ==
    {Null, Str(<<>>), Str(<<" ">>), Bool(TRUE), Str(<<"T", "R", "U", "E">>),
     Str(<<" ", "t", "r", "u", "e", " ">>), Str(<<CheckMark>>),
     Str(<<" ", CheckMark>>), Bool(FALSE), Str(<<"F", "A", "L", "S", "E">>),
     Str(<<"f", "a", "l", "s", "e", " ">>), Str(Booked), Str(<<"x">>), Num(0),
     Str(<<"t", "r", "u", "e", "!">>)}
\* A time-slot row of Sam Lee under the header of Monday and Tuesday: both
\* cells present, Tuesday's missing, or both missing.
MarkRows ==
    {Arr(<<Str(Chars(SamLee, TIME_SLOTS[n].label)), monday, tuesday>>) :
        n \in {1, 3}, monday \in Marks, tuesday \in Marks}
    \cup {Arr(<<Str(Chars(SamLee, TIME_SLOTS[3].label)), monday>>) : monday \in Marks}
    \cup {Arr(<<Str(Chars(SamLee, TIME_SLOTS[2].label))>>)}
\* No draft begins below data row MaxRowIndex (counted from 0).
MaxRowIndex == 198
\* No list of sheets is longer than MaxSheets.
MaxSheets == 3
\* Titles: the prefix with a range over the turn of the year, with a range in
\* January, with a range in June, without a range; no prefix, with and
\* without a range.
TitleJune == SHEET_TITLE_PREFIX \o <<" ", "6", "/", "3", "-", "6", "/", "9">>
TitlePlain == SHEET_TITLE_PREFIX \o <<" ", "T", "e", "m", "p", "l", "a", "t", "e">>
TitleWeek == <<"W", "e", "e", "k", " ", "1", "/", "1", " ", "-", " ", "1", "/", "3", "1">>
Titles == {TitleDec, TitleJan, TitleJune, TitlePlain, TitleWeek, TitleOther}
RECURSIVE Lists(_, _)
Lists(set, n) ==
    IF n = 0 THEN {<<>>}
    ELSE Lists(set, n - 1) \cup {Append(l, x) : l \in Lists(set, n - 1), x \in set}
\* Target dates around the ranges of the titles.
CallDates ==
    {[y |-> 2023, m |-> 12, d |-> 29], [y |-> 2023, m |-> 12, d |-> 30],
     [y |-> 2024, m |-> 1, d |-> 2], [y |-> 2024, m |-> 1, d |-> 5],
     [y |-> 2024, m |-> 1, d |-> 6], [y |-> 2024, m |-> 1, d |-> 12],
     [y |-> 2024, m |-> 1, d |-> 13], [y |-> 2024, m |-> 3, d |-> 15],
     [y |-> 2024, m |-> 12, d |-> 31]}
\* Names of up to MaxNameLen characters: a capital letter, a digit, an
\* apostrophe, a double quote, a blank; and the two names of O'Brien.
MaxNameLen == 3
NameChars == {"O", "1", "'", "\"", " "}
OBrienJr == <<"O", "'", "B", "r", "i", "e", "n", ",", " ", "J", "r", ".", " ">>
obrienjr == <<"o", "b", "r", "i", "e", "n", " ", "j", "r">>
Names == Lists(NameChars, MaxNameLen) \cup {OBrienJr, obrienjr}
\* The same name written otherwise: a letter in the other case, or an
\* apostrophe, a comma, a double quote or a blank put in at some place.
OtherCase(c) == IF c = "O" THEN "o" ELSE IF c = "o" THEN "O" ELSE c
WrittenOtherwise(name) ==
    {[n \in 1..Len(name) |-> IF n = p THEN OtherCase(name[n]) ELSE name[n]] :
        p \in 1..Len(name)}
    \cup {SubSeq(name, 1, p) \o <<c>> \o SubSeq(name, p + 1, Len(name)) :
             p \in 0..Len(name), c \in {"'", ",", "\"", " "}}
    \cup (IF name = OBrienJr THEN {obrienjr} ELSE {})
\* No rank list is longer than MaxRankRows.  Its rows: Sam Lee in two
\* spellings, Jane Doe, the header token alone and inside a longer text, an
\* empty name, a row without cells.
MaxRankRows == 3
RankSam == Arr(<<Str(SamLee)>>)
RankSamLower == Arr(<<Str(<<"s", "a", "m", " ", "l", "e", "e", " ">>)>>)
RankJane == Arr(<<Str(JaneDoe), Str(Booked)>>)
RankHeader == Arr(<<Str(<<"S", "a", "l", "e", "s", " ", "O", "r", "d", "e", "r">>)>>)
RankHeaderLong == Arr(<<Str(SamLee \o <<" ", "(">> \o SalesOrder \o <<")">>)>>)
RankNoName == Arr(<<Str(<<>>), Str(JaneDoe)>>)
RankNoCells == Arr(<<>>)
RankRowChoices ==
    {RankSam, RankSamLower, RankJane, RankHeader, RankHeaderLong, RankNoName, RankNoCells}
\* Skill sheets of one data row.  Headers: skills then zip; skills only; zip
\* directly after the name; two zip headers; a name header that contains
\* 'zip'.  Cells: a number, a text, two zip codes, nothing.
NameHeader == <<"N", "a", "m", "e">>
NameZipHeader == <<"R", "e", "p", " ", "(", "z", "i", "p", ")">>
Roof == <<"R", "o", "o", "f">>
Tile == <<"T", "i", "l", "e">>
ZipCodes == <<"Z", "i", "p", " ", "C", "o", "d", "e", "s">>
OldZips == <<"o", "l", "d", " ", "z", "i", "p", "s">>
SkillHeaderChoices ==
    {<<NameHeader, Roof, Tile, ZipCodes>>, <<NameHeader, Roof, Tile, <<" ">> \o Roof>>,
     <<NameHeader, ZipCodes, Roof, Tile>>, <<NameHeader, Roof, ZipCodes, OldZips>>,
     <<NameZipHeader, Roof, Tile>>}
Three == <<"3">>
TwoZips == <<"8", "5", "0", "0", "1", ",", " ", "8", "5", "0", "0", "2">>
SkillCells == {Three, <<"x">>, TwoZips, <<>>}
SkillSheets ==
    {<<headers, <<SamLee>> \o cells>> :
        headers \in SkillHeaderChoices, cells \in Lists(SkillCells, 3)}
CallInputs ==
    {[fn |-> "scanRow", headerRow |-> HeaderRow, row |-> row] : row \in MarkRows}
    \cup {[fn |-> "fetchRepSkills", headers |-> sheet[1], cells |-> sheet[2]] :
             sheet \in SkillSheets}
    \cup {[fn |-> "fetchSalesRankings", values |-> values] :
             values \in Lists(RankRowChoices, MaxRankRows)}
    \cup {[fn |-> "Region", firstRowIndex |-> rowIndex + 2] : rowIndex \in 0..MaxRowIndex}

InitCall ==
    /\ ServiceIdle
    /\ \/ input \in CallInputs
       \/ \E name \in Names : \E other \in WrittenOtherwise(name) :
             input = [fn |-> "normalizeName", name |-> name, other |-> other]
       \/ \E d \in CallDates : \E titles \in Lists(Titles, MaxSheets) :
             input = [fn |-> "findSheetNameForDate", dateToFind |-> d, titles |-> titles]
    /\ output = Undefined

\* Lines 266-331 on the first data row of a grid.
CallScanRow ==
    /\ output = Undefined
    /\ input.fn = "scanRow"
    /\ output' = ScanRow(ScanStart, input.row, 0, DaysFrom(input.headerRow.v, 0))
    /\ UNCHANGED <<serviceVars, input>>

\* Lines 57-103: the sheets are descriptors that each carry a title.
CallFindSheetNameForDate ==
    /\ output = Undefined
    /\ input.fn = "findSheetNameForDate"
    /\ output' = findSheetNameForDate(input.dateToFind,
                                      Arr([n \in 1..Len(input.titles) |-> Str(input.titles[n])]))
    /\ UNCHANGED <<serviceVars, input>>

\* Lines 359-367 for a draft whose first row is sheet row firstRowIndex.
CallRegion ==
    /\ output = Undefined
    /\ input.fn = "Region"
    /\ output' = [region |-> Region(input.firstRowIndex)]
    /\ UNCHANGED <<serviceVars, input>>

\* Line 106, applied to a name, to its own result and to the name written
\* otherwise.
CallNormalizeName ==
    /\ output = Undefined
    /\ input.fn = "normalizeName"
    /\ output' = [key |-> normalizeName(input.name),
                  keyOfKey |-> normalizeName(normalizeName(input.name)),
                  keyOfOther |-> normalizeName(input.other)]
    /\ UNCHANGED <<serviceVars, input>>

\* Lines 120-139 of fetchSalesRankings on the values of the body.
CallFetchSalesRankings ==
    /\ output = Undefined
    /\ input.fn = "fetchSalesRankings"
    /\ output' = ParseRanks(Arr(input.values))
    /\ UNCHANGED <<serviceVars, input>>

\* Lines 157-191 of fetchRepSkills on the values of the body: the header row
\* and one data row, every cell a text.
CallFetchRepSkills ==
    /\ output = Undefined
    /\ input.fn = "fetchRepSkills"
    /\ output' = ParseSkills(Arr(<<Arr([n \in 1..Len(input.headers) |-> Str(input.headers[n])]),
                                   Arr([n \in 1..Len(input.cells) |-> Str(input.cells[n])])>>))
    /\ UNCHANGED <<serviceVars, input>>

NextCall ==
    \/ CallScanRow
    \/ CallFindSheetNameForDate
    \/ CallRegion
    \/ CallNormalizeName
    \/ CallFetchSalesRankings
    \/ CallFetchRepSkills

SpecCall == InitCall /\ [][NextCall]_vars

(***************************************************************************)
(* fetchSheetCell, lines 407-429.  input is the pair of arguments, solo    *)
(* the call of fetchWithRetry it makes, log what the network saw, output   *)
(* the position of the function, the body it read and how it ended.        *)
(***************************************************************************)
A1 == <<"A", "1">>
CellInputs == {[cell |-> A1, sheetName |-> <<>>], [cell |-> A1, sheetName |-> TitleJan]}
\* Bodies of the values endpoint for one cell: a text, an empty text, no
\* values (an empty range), an empty values list, an empty row, null, zero,
\* false; a body that is no JSON.
CellBodies ==
    {Values(Arr(<<Arr(<<Str(Booked)>>)>>)), Values(Arr(<<Arr(<<Str(<<>>)>>)>>)),
     Values(Undefined), Values(Arr(<<>>)), Values(Arr(<<Arr(<<>>)>>)),
     Values(Arr(<<Arr(<<Null>>)>>)), Values(Arr(<<Arr(<<Num(0)>>)>>)),
     Values(Arr(<<Arr(<<Bool(FALSE)>>)>>)), InvalidBody}

SheetNameMissing == "Sheet name must be provided to fetch a cell."
CouldNotRetrieve == "Could not retrieve data for cell."
Empty == <<"(", "e", "m", "p", "t", "y", ")">>

\* Lines 419-424: data.values?.[0]?.[0], then '(empty)' or String(value).
CellTextNeverEmpty(values) ==
    ToStr(IF Nullish(values) \/ Nullish(At(values, 0)) THEN Undefined
          ELSE At(At(values, 0), 0))
CellText(values) ==
    LET value == IF Nullish(values) \/ Nullish(At(values, 0)) THEN Undefined
                 ELSE At(At(values, 0), 0)
    IN  IF value = Undefined \/ value = Null \/ value = Str(<<>>) THEN Empty
        ELSE ToStr(value)

IdleCell == [pc |-> "init", body |-> Undefined, returned |-> <<>>, thrown |-> <<>>,
             logged |-> FALSE]
\* Lines 425-428: the catch block logs and throws a new error.
CellCaught(o) ==
    [o EXCEPT !.pc = "threw", !.thrown = Append(@, CouldNotRetrieve), !.logged = TRUE]

InitCell ==
    /\ ServiceIdle
    /\ input \in CellInputs
    /\ output = IdleCell

\* Lines 408-414: the guard on sheetName, then fetchWithRetry(url).
CellCall ==
    /\ output.pc = "init"
    /\ IF input.sheetName = <<>>
       THEN /\ output' = [output EXCEPT !.pc = "threw",
                                        !.thrown = Append(@, SheetNameMissing)]
            /\ UNCHANGED <<solo, log>>
       ELSE /\ solo' = fetchWithRetry(DefaultRetries, DefaultInitialDelay)
            /\ log' = log \o Effects(solo, solo')
            /\ output' = [output EXCEPT !.pc = "awaitFetch"]
    /\ UNCHANGED <<queryVars, input>>

\* Lines 414-418: fetchWithRetry has settled.
CellResume ==
    /\ output.pc = "awaitFetch"
    /\ Finished(solo)
    /\ output' = IF solo.pc = "threw" \/ ~IsOk(solo.response[1]) THEN CellCaught(output)
                 ELSE [output EXCEPT !.pc = "awaitJson"]
    /\ UNCHANGED <<retryVars, queryVars, input>>

\* Lines 418-424: response.json() has settled.
CellBody ==
    /\ output.pc = "awaitJson"
    /\ \E body \in CellBodies :
          output' = IF ~body.json THEN CellCaught([output EXCEPT !.body = body])
                    ELSE [output EXCEPT !.pc = "returned", !.body = body,
                                        !.returned = Append(@, CellText(body.values))]
    /\ UNCHANGED <<retryVars, queryVars, input>>

NextCell == CellCall \/ SoloRespond \/ SoloFail \/ SoloWake \/ CellResume \/ CellBody

SpecCell == InitCell /\ [][NextCell]_vars

(***************************************************************************)
(* NeedsRescheduleModal.  A job is [id, originalTimeframe, timeSlotLabel],  *)
(* a slot [label, jobs], a rep [id, isOptimized, schedule]; the empty text  *)
(* stands for a property that is absent, which the code tests the same way. *)
(***************************************************************************)
\* timeStr.split('-')
RECURSIVE SplitDash(_)
SplitDash(s) ==
    IF \E n \in 1..Len(s) : s[n] = "-"
    THEN LET p == CHOOSE n \in 1..Len(s) : s[n] = "-" /\ \A m \in 1..(n - 1) : s[m] # "-"
         IN  <<SubSeq(s, 1, p - 1)>> \o SplitDash(SubSeq(s, p + 1, Len(s)))
    ELSE <<s>>

Am == <<"a", "m">>
Pm == <<"p", "m">>

\* Lines 16-26: the leftmost match of /(\d{1,2})(?::(\d{2}))?\s*(am|pm)?/i in
\* t, in minutes of the day; 0 when t has no digit.
parseTime(t) ==
    IF \A n \in 1..Len(t) : ~IsDigit(t[n]) THEN 0
    ELSE LET a == CHOOSE n \in 1..Len(t) :
                      IsDigit(t[n]) /\ \A k \in 1..(n - 1) : ~IsDigit(t[k])
             two == a + 1 <= Len(t) /\ IsDigit(t[a + 1])
             b == IF two THEN a + 2 ELSE a + 1
             hasMin == /\ b + 2 <= Len(t)
                       /\ t[b] = ":" /\ IsDigit(t[b + 1]) /\ IsDigit(t[b + 2])
             rest == trimStart(SubSeq(t, IF hasMin THEN b + 3 ELSE b, Len(t)))
             p == IF Len(rest) >= 2 /\ toLowerCase(SubSeq(rest, 1, 2)) \in {Am, Pm}
                  THEN toLowerCase(SubSeq(rest, 1, 2)) ELSE <<>>
             h == DigitsValue(SubSeq(t, a, b - 1))
             m == IF hasMin THEN DigitsValue(SubSeq(t, b + 1, b + 2)) ELSE 0
         IN  (IF p = Pm /\ h < 12 THEN h + 12
              ELSE IF p = Am /\ h = 12 THEN 0
              ELSE IF p = <<>> /\ h >= 1 /\ h <= 6 THEN h + 12
              ELSE h) * 60 + m

\* Lines 12-32: null when the text is absent or has no dash.
NoRange == [none |-> TRUE]
parseTimeRange(timeStr) ==
    LET parts == SplitDash(timeStr)
    IN  IF timeStr = <<>> \/ Len(parts) < 2 THEN NoRange
        ELSE [none |-> FALSE, start |-> parseTime(trim(parts[1])),
              end |-> parseTime(trim(parts[2]))]

\* Lines 34-39
doTimesOverlap(t1, t2) ==
    LET r1 == parseTimeRange(t1)
        r2 == parseTimeRange(t2)
    IN  IF r1.none \/ r2.none THEN TRUE
        ELSE r1.start < r2.end /\ r2.start < r1.end

\* Lines 50-52: the jobs in the order the three forEach loops visit them,
\* each with its rep and the label of its slot.
RECURSIVE JobsOfSlot(_, _, _)
JobsOfSlot(rep, slot, n) ==
    IF n > Len(slot.jobs) THEN <<>>
    ELSE <<[rep |-> rep.id, isOptimized |-> rep.isOptimized, label |-> slot.label,
            job |-> slot.jobs[n]]>> \o JobsOfSlot(rep, slot, n + 1)
RECURSIVE JobsOfRep(_, _)
JobsOfRep(rep, n) ==
    IF n > Len(rep.schedule) THEN <<>>
    ELSE JobsOfSlot(rep, rep.schedule[n], 1) \o JobsOfRep(rep, n + 1)
RECURSIVE Visited(_, _)
Visited(reps, n) ==
    IF n > Len(reps) THEN <<>> ELSE JobsOfRep(reps[n], 1) \o Visited(reps, n + 1)

\* Lines 53-64: what one visit adds to results, with seenJobIds.
RECURSIVE Listed(_, _, _)
Listed(visits, n, seenJobIds) ==
    IF n > Len(visits) THEN <<>>
    ELSE LET job == visits[n].job
             scheduledTimeLabel ==
                 IF job.timeSlotLabel # <<>> THEN job.timeSlotLabel ELSE visits[n].label
             listed == /\ job.originalTimeframe # <<>>
                       /\ scheduledTimeLabel # <<>>
                       /\ ~doTimesOverlap(job.originalTimeframe, scheduledTimeLabel)
                       /\ job.id \notin seenJobIds
         IN  IF listed
             THEN <<[rep |-> visits[n].rep,
                     job |-> [job EXCEPT !.timeSlotLabel = scheduledTimeLabel],
                     reason |-> IF visits[n].isOptimized THEN "Optimized" ELSE "Mismatch"]>>
                  \o Listed(visits, n + 1, seenJobIds \cup {job.id})
             ELSE Listed(visits, n + 1, seenJobIds)

\* Lines 46-69
jobsNeedingReschedule(reps) == Listed(Visited(reps, 1), 1, {})

\* AppContext.handleUpdateJob(id, {originalTimeframe}): every job of that id,
\* wherever it is scheduled, gets the new originalTimeframe.
handleUpdateJob(reps, id, originalTimeframe) ==
    [r \in 1..Len(reps) |->
        [reps[r] EXCEPT !.schedule =
            [k \in 1..Len(reps[r].schedule) |->
                [reps[r].schedule[k] EXCEPT !.jobs =
                    [n \in 1..Len(reps[r].schedule[k].jobs) |->
                        IF reps[r].schedule[k].jobs[n].id = id
                        THEN [reps[r].schedule[k].jobs[n] EXCEPT
                                 !.originalTimeframe = originalTimeframe]
                        ELSE reps[r].schedule[k].jobs[n]]]]]]

\* Lines 85-90
handleConfirmReschedule(reps, job) ==
    IF job.timeSlotLabel # <<>>
    THEN handleUpdateJob(reps, job.id, job.timeSlotLabel)
    ELSE reps

\* The jobs of the schedules tried: two ids, each with the time the customer
\* asked for and, for an optimized job, a label of its own; each job stands
\* in one or more of three slots of two reps.
JobIds == {"job-1", "job-2"}
Six8 == <<"6", " ", "-", " ", "8">>
One3 == <<"1", " ", "-", " ", "3">>
Frames == {TIME_SLOTS[1].label, TIME_SLOTS[2].label, One3, <<>>}
OwnLabels == {<<>>, TIME_SLOTS[4].label, Six8}
Places == {<<1, 1>>, <<1, 2>>, <<2, 1>>}
PlaceLabel(place) ==
    IF place = <<1, 1>> THEN TIME_SLOTS[1].label
    ELSE IF place = <<1, 2>> THEN TIME_SLOTS[4].label
    ELSE TIME_SLOTS[2].label
\* The jobs standing at a place, job-1 before job-2.
JobsAt(jobs, at, place) ==
    (IF place \in at["job-1"] THEN <<jobs["job-1"]>> ELSE <<>>)
    \o (IF place \in at["job-2"] THEN <<jobs["job-2"]>> ELSE <<>>)
RepsOf(jobs, at) ==
    <<[id |-> "rep-1", isOptimized |-> TRUE,
       schedule |-> <<[label |-> PlaceLabel(<<1, 1>>), jobs |-> JobsAt(jobs, at, <<1, 1>>)],
                      [label |-> PlaceLabel(<<1, 2>>), jobs |-> JobsAt(jobs, at, <<1, 2>>)]>>],
      [id |-> "rep-2", isOptimized |-> FALSE,
       schedule |-> <<[label |-> PlaceLabel(<<2, 1>>), jobs |-> JobsAt(jobs, at, <<2, 1>>)]>>]>>

\* No more than MaxClicks confirmations are followed.
MaxClicks == 2

\* The modal is open on appState.reps; nothing is confirmed yet.
InitModal ==
    /\ ServiceIdle
    /\ \E frames \in [JobIds -> Frames], labels \in [JobIds -> OwnLabels],
          at \in [JobIds -> (SUBSET Places) \ {{}}] :
          input = [reps |-> RepsOf([id \in JobIds |->
                                       [id |-> id, originalTimeframe |-> frames[id],
                                        timeSlotLabel |-> labels[id]]], at)]
    /\ output = [reps |-> input.reps, clicks |-> 0,
                 confirmed |-> [id |-> "", timeSlotLabel |-> <<>>]]

\* Lines 167, 85-90: the box of a listed job is ticked.
ConfirmReschedule ==
    /\ output.clicks < MaxClicks
    /\ \E listed \in {jobsNeedingReschedule(output.reps)} :
          \E entry \in {listed[n] : n \in 1..Len(listed)} :
              output' = [reps |-> handleConfirmReschedule(output.reps, entry.job),
                         clicks |-> output.clicks + 1,
                         confirmed |-> [id |-> entry.job.id,
                                        timeSlotLabel |-> entry.job.timeSlotLabel]]
    /\ UNCHANGED <<serviceVars, input>>

NextModal == ConfirmReschedule

SpecModal == InitModal /\ [][NextModal]_vars

(***************************************************************************)
(* RouteMapPanel.  selectedTimeSlotId is <<>> for null and <<id>> for a     *)
(* slot id; a job is [id, timeSlotLabel], the empty text for no label.      *)
(***************************************************************************)
\* Lines 51-53
toggleTimeSlot(prev, slotId) == IF prev = <<slotId>> THEN <<>> ELSE <<slotId>>

\* Line 67: TIME_SLOTS.find(ts => ts.label === jobSlotLabel), as the place of
\* the slot in the catalog, 0 when there is none.
MatchedSlot(jobSlotLabel) ==
    IF \E k \in 1..Len(TIME_SLOTS) : TIME_SLOTS[k].label = jobSlotLabel
    THEN CHOOSE k \in 1..Len(TIME_SLOTS) :
             /\ TIME_SLOTS[k].label = jobSlotLabel
             /\ \A i \in 1..(k - 1) : TIME_SLOTS[i].label # jobSlotLabel
    ELSE 0

\* Lines 56-74
jobsForMapRemovesOthers(hasRouteData, mappableJobs, selectedTimeSlotId) ==
    IF ~hasRouteData THEN <<>>
    ELSE LET Shown(job) ==
                 \/ selectedTimeSlotId = <<>>
                 \/ /\ MatchedSlot(job.timeSlotLabel) # 0
                    /\ <<TIME_SLOTS[MatchedSlot(job.timeSlotLabel)].id>> = selectedTimeSlotId
             shown == SelectSeq(mappableJobs, Shown)
         IN  [n \in 1..Len(shown) |->
                 [id |-> shown[n].id, timeSlotLabel |-> shown[n].timeSlotLabel,
                  isDimmed |-> FALSE]]
jobsForMap(hasRouteData, mappableJobs, selectedTimeSlotId) ==
    IF ~hasRouteData THEN <<>>
    ELSE [n \in 1..Len(mappableJobs) |->
             LET job == mappableJobs[n]
                 matchedSlot == MatchedSlot(job.timeSlotLabel)
                 isMatch == IF matchedSlot # 0
                            THEN <<TIME_SLOTS[matchedSlot].id>> = selectedTimeSlotId
                            ELSE FALSE
             IN  [id |-> job.id, timeSlotLabel |-> job.timeSlotLabel,
                  isDimmed |-> IF selectedTimeSlotId = <<>> THEN FALSE ELSE ~isMatch]]

\* No route has more than MaxMapJobs mappable jobs.  A job carries the label
\* of a catalog slot, a label of no slot, or none.
MaxMapJobs == 3
MapLabels == {TIME_SLOTS[1].label, TIME_SLOTS[2].label, Six8, <<>>}
\* The jobs of a list of labels, numbered in order.
JobsLabelled(labels) == [n \in 1..Len(labels) |-> [id |-> n, timeSlotLabel |-> labels[n]]]

\* Lines 20-25 and the first render: nothing is selected.
InitPanel ==
    /\ ServiceIdle
    /\ \E hasRouteData \in BOOLEAN : \E labels \in Lists(MapLabels, MaxMapJobs) :
          /\ hasRouteData \/ labels = <<>>
          /\ input = [hasRouteData |-> hasRouteData, mappableJobs |-> JobsLabelled(labels)]
    /\ output = [selectedTimeSlotId |-> <<>>, clicked |-> "",
                 jobsForMap |-> jobsForMap(input.hasRouteData, input.mappableJobs, <<>>)]

\* The panel after a click has set selectedTimeSlotId and it has rendered again.
Rendered(selectedTimeSlotId, clicked) ==
    output' = [selectedTimeSlotId |-> selectedTimeSlotId, clicked |-> clicked,
               jobsForMap |-> jobsForMap(input.hasRouteData, input.mappableJobs,
                                         selectedTimeSlotId)]

\* Line 170: the button of a slot of the filter bar is clicked.
ToggleTimeSlot ==
    /\ \E k \in 1..Len(TIME_SLOTS) :
          Rendered(toggleTimeSlot(output.selectedTimeSlotId, TIME_SLOTS[k].id),
                   TIME_SLOTS[k].id)
    /\ UNCHANGED <<serviceVars, input>>

\* Lines 181-183: the Show All link, there only while a slot is selected.
ShowAll ==
    /\ output.selectedTimeSlotId # <<>>
    /\ Rendered(<<>>, "Show All")
    /\ UNCHANGED <<serviceVars, input>>

NextPanel == ToggleTimeSlot \/ ShowAll

SpecPanel == InitPanel /\ [][NextPanel]_vars

(***************************************************************************)
(* Vocabulary of the claims about fetchWithRetry.                          *)
(***************************************************************************)
RECURSIVE Pow2(_)
Pow2(n) == IF n <= 0 THEN 1 ELSE 2 * Pow2(n - 1)

IsOutcome(e) == e.k \in {"resp", "fail"}
IsSleep(e) == e.k = "sleep"
Outcomes == SelectSeq(log, IsOutcome)
Sleeps == SelectSeq(log, IsSleep)

Successful(st) == st \in 200..299
NonRetryable(st) == Successful(st) \/ (st < 500 /\ st # 429)
Retryable(st) == st = 429 \/ st >= 500
RetryableResp(e) == e.k = "resp" /\ Retryable(e.st)

\* C1: a response that is successful, or below 500 and not 429, is returned at
\* once on whichever attempt it arrives: it is the last thing the call does
\* (no sleep and no request follows it) and it is the call's result; when it
\* answers the first attempt, exactly one request was issued and no sleep began.
C1_NonRetryableReturnedAtOnce ==
    \A n \in 1..Len(log) :
        (log[n].k = "resp" /\ NonRetryable(log[n].st)) =>
            /\ n = Len(log)
            /\ solo.pc = "returned"
            /\ solo.response = <<log[n].st>>
            /\ solo.error = ""
            /\ (n = 2 => /\ solo.nreq = 1
                         /\ solo.nsleep = 0
                         /\ log = <<Req, log[n]>>)

\* A 404 that answers the third attempt, after a 503 and a transport failure.
C1_Witness ==
    /\ solo.pc = "returned"
    /\ solo.response = <<404>>
    /\ Len(Outcomes) = 3
    /\ Outcomes[1] = Resp(503)
    /\ Outcomes[2].k = "fail"

\* C2: k responses with status 5xx or 429 (0 <= k <= retries) followed by one
\* 2xx response: the call returns that 2xx response after exactly k sleeps of
\* initialDelay, 2*initialDelay, ..., 2^(k-1)*initialDelay, each sleep lying
\* between two consecutive attempts.
C2_DoublingBackoffThenSuccess ==
    LET outs == Outcomes
        k == Len(outs) - 1
    IN  (/\ Len(outs) >= 1
         /\ \A j \in 1..k : RetryableResp(outs[j])
         /\ outs[k + 1].k = "resp"
         /\ Successful(outs[k + 1].st))
        =>
        /\ k <= solo.retries
        /\ solo.pc = "returned"
        /\ solo.response = <<outs[k + 1].st>>
        /\ Len(Sleeps) = k
        /\ Len(log) = 3 * k + 2
        /\ \A j \in 0..(k - 1) :
              /\ log[3 * j + 1] = Req
              /\ log[3 * j + 2] = outs[j + 1]
              /\ log[3 * j + 3] = Slept(Pow2(j) * solo.initialDelay)
        /\ log[3 * k + 1] = Req
        /\ log[3 * k + 2] = outs[k + 1]

\* Three retryable responses, then 200: slept 1000, 2000, 4000.
C2_Witness ==
    /\ solo.pc = "returned"
    /\ solo.response = <<200>>
    /\ solo.retries = 3
    /\ Len(Outcomes) = 4
    /\ \A j \in 1..3 : RetryableResp(Outcomes[j])
    /\ Sleeps = <<Slept(1000), Slept(2000), Slept(4000)>>

\* C3: when all retries+1 attempts receive a 5xx or 429 response, the call
\* returns the response of the last attempt as a normal result and raises
\* nothing; no sleep follows that last attempt.
C3_ExhaustedReturnsLastResponse ==
    LET outs == Outcomes
    IN  (/\ Len(outs) = solo.retries + 1
         /\ solo.pc # "idle"
         /\ \A j \in 1..Len(outs) : RetryableResp(outs[j]))
        =>
        /\ solo.pc = "returned"
        /\ solo.error = ""
        /\ solo.response = <<outs[Len(outs)].st>>
        /\ log[Len(log)] = outs[Len(outs)]
        /\ Len(Sleeps) = solo.retries
        /\ solo.nreq = solo.retries + 1

\* Three attempts (retries = 2) answered 500, 429, 503: the 503 is returned.
C3_Witness ==
    /\ solo.retries = 2
    /\ Outcomes = <<Resp(500), Resp(429), Resp(503)>>
    /\ solo.pc = "returned"
    /\ solo.response = <<503>>

\* C4: transport failures are retried on the schedule of 5xx/429 responses:
\* every failed attempt of either kind but the last permitted one is followed
\* by a sleep, and the j-th sleep of a call lasts 2^(j-1)*initialDelay whatever
\* the kinds of the failures before it; when attempt retries+1 is a transport
\* failure the call raises that attempt's error and returns no response.
C4_TransportFailuresRetriedThenRaised ==
    LET outs == Outcomes
        sl == Sleeps
    IN  /\ \A j \in 1..Len(sl) : sl[j] = Slept(Pow2(j - 1) * solo.initialDelay)
        /\ \A j \in 1..Len(outs) :
              (j <= solo.retries /\ (outs[j].k = "fail" \/ RetryableResp(outs[j])))
                  => Len(sl) >= j
        /\ \A n \in 1..Len(log) :
              (log[n].k = "fail" /\ n < Len(log)) => log[n + 1].k = "sleep"
        /\ (/\ solo.pc # "idle"
            /\ Len(outs) = solo.retries + 1
            /\ outs[Len(outs)].k = "fail")
           => /\ solo.pc = "threw"
              /\ solo.error = outs[Len(outs)].err
              /\ solo.response = <<>>
              /\ log[Len(log)] = outs[Len(outs)]

\* A 503, then two transport failures of different kinds with retries = 2:
\* slept 1000 and 2000, then raised the last attempt's error.
C4_Witness ==
    /\ solo.retries = 2
    /\ Outcomes = <<Resp(503), Fail("ECONNRESET"), Fail("ETIMEDOUT")>>
    /\ Sleeps = <<Slept(1000), Slept(2000)>>
    /\ solo.pc = "threw"
    /\ solo.error = "ETIMEDOUT"

(***************************************************************************)
(* Vocabulary of the claims about fetchSheetData.                          *)
(***************************************************************************)
QueryEnded == main.pc \in {"returned", "threw"}
Outcome == main.returned[1]
Issued(c) == calls[c].nreq > 0
FetchOk(c) == calls[c].pc = "returned" /\ IsOk(calls[c].response[1])
FetchFailed(c) == calls[c].pc = "threw" \/ (calls[c].pc = "returned" /\ ~IsOk(calls[c].response[1]))
StartedBefore(a, b) ==
    \E i, j \in 1..Len(started) : i < j /\ started[i] = a /\ started[j] = b
\* The title findSheetNameForDate chose from the metadata the query holds.
Selected == SheetFound[date][Sheets(main.sheets)].title

\* C5: the skill fetch and the rank fetch are started before the metadata
\* fetch is issued; the grid fetch issues its first request only after the
\* metadata fetch returned a successful response and findSheetNameForDate
\* produced a non-null sheet name; no grid request is issued when metadata
\* fails or no sheet is selected.
C5_LoadersFirstGridAfterSelection ==
    /\ Issued("meta") =>
          /\ Issued("skills") /\ Issued("ranks")
          /\ StartedBefore("skills", "meta") /\ StartedBefore("ranks", "meta")
    /\ Issued("grid") =>
          /\ FetchOk("meta")
          /\ main.sheets # Undefined
          /\ Selected # Null
          /\ main.sheetName = ToStr(Selected)
          /\ StartedBefore("meta", "grid")
    /\ FetchFailed("meta") => ~Issued("grid")
C5_Witness ==
    /\ Issued("grid")
    /\ calls["skills"].pc = "fetch"
    /\ calls["ranks"].pc = "fetch"
    /\ main.sheetName = TitleJan

\* C6: in one query each loader is invoked exactly once, and the Rep list is
\* assembled only after the grid parse finished and both loaders resolved,
\* from what they resolved with, whatever the order in which the four
\* fetches complete.
C6_LoadersOnceAssemblyLast ==
    /\ \A l \in Loaders :
          loaders[l].invoked = (IF main.pc = "init" THEN 0 ELSE 1)
    /\ main.reps # Undefined =>
          /\ main.grid.kind = "parsed"
          /\ \A l \in Loaders : loaders[l].pc = "resolved"
          /\ main.reps.v = AssembleReps(main.grid.repsMap, main.grid.days,
                                        loaders["skills"].map, loaders["ranks"].map)
C6_Witness ==
    /\ main.reps # Undefined
    /\ Len(main.reps.v) = 2
    /\ calls["skills"].nsleep > 0
    /\ calls["grid"].nsleep = 0
    /\ loaders["skills"].map # EmptyMap
    /\ loaders["ranks"].map # EmptyMap

\* C7: when the skills endpoint answers with a non-2xx status while metadata
\* and grid retrieval succeed, the query returns without error the Rep list
\* it returns when skills succeed (same names, order, unavailableSlots,
\* region), with skills and zipCodes undefined on every Rep.
C7_SkillsRefusalDegrades ==
    (/\ QueryEnded
     /\ calls["skills"].pc = "returned" /\ ~IsOk(calls["skills"].response[1])
     /\ main.grid.kind = "parsed")
    => /\ main.pc = "returned"
       /\ main.thrown = <<>>
       /\ main.reps # Undefined
       /\ Outcome = Assembled(main.reps.v, main.sheetName)
       /\ \E whenOk \in {AssembleReps(main.grid.repsMap, main.grid.days,
                                      SkillsParsed[SkillsGood].map, loaders["ranks"].map)} :
             /\ Len(main.reps.v) = Len(whenOk)
             /\ \A n \in 1..Len(whenOk) :
                   /\ main.reps.v[n].name = whenOk[n].name
                   /\ main.reps.v[n].unavailableSlots = whenOk[n].unavailableSlots
                   /\ main.reps.v[n].region = whenOk[n].region
                   /\ main.reps.v[n].skills = Undefined
                   /\ main.reps.v[n].zipCodes = Undefined
C7_Witness ==
    /\ main.pc = "returned"
    /\ calls["skills"].pc = "returned"
    /\ calls["skills"].response = <<503>>
    /\ calls["skills"].nreq = DefaultRetries + 1
    /\ main.reps # Undefined
    /\ Len(main.reps.v) = 2
    /\ Outcome.reps = main.reps.v

\* C8: fetchRepSkills and fetchSalesRankings never reject: on a transport
\* failure, a non-2xx response or an error raised while reading or parsing
\* the body, each resolves with an empty mapping.
LoaderFailed(l) == FetchFailed(l) \/ loaders[l].caught
C8_LoadersResolveEmptyOnFailure ==
    \A l \in Loaders :
       /\ loaders[l].pc # "rejected"
       /\ (loaders[l].pc = "resolved" /\ LoaderFailed(l)) => loaders[l].map = EmptyMap

\* The conditions of C9 on what the query holds.
NoPrefixedSheet ==
    /\ main.sheets.t = "array"
    /\ \A n \in 1..Len(main.sheets.v) :
          ~startsWith(ToStr(main.sheets.v[n]), SHEET_TITLE_PREFIX)
FewerThanTwoRows ==
    FetchOk("grid") /\ main.grid.kind # "none"
    /\ (~Truthy(main.values) \/ LengthOf(main.values) < 2)
ZeroDayColumns ==
    /\ FetchOk("grid")
    /\ main.values.t = "array"
    /\ main.values.v # <<>>
    /\ main.values.v[1].t = "array"
    /\ DaysFrom(main.values.v[1].v, 0) = <<>>
IsMockDataset(result) ==
    /\ DOMAIN result = {"reps", "sheetName"}
    /\ result.sheetName = MockData
    /\ Len(result.reps) = Len(MOCK_REPS_DATA)
    /\ \A n \in 1..Len(result.reps) :
          /\ result.reps[n].isMock
          /\ result.reps[n].name = MOCK_REPS_DATA[n].name
OneOutcome ==
    /\ Len(main.returned) + Len(main.thrown) = (IF QueryEnded THEN 1 ELSE 0)
    /\ main.pc = "returned" =>
          Len(main.returned) = 1 /\ DOMAIN Outcome = {"reps", "sheetName"}
    /\ main.pc = "threw" => Len(main.thrown) = 1
RaisesOrMock(condition) ==
    (QueryEnded /\ condition) =>
        IF USE_MOCK_DATA_ON_FAILURE
        THEN main.pc = "returned" /\ IsMockDataset(Outcome)
        ELSE main.pc = "threw"

\* C9 as stated: every run ends in exactly one outcome, a returned {reps,
\* sheetName} or a raised error; with the flag disabled a transport failure or
\* non-2xx response on the metadata or grid fetch, no prefixed sheet, or zero
\* day columns makes it raise; with the flag enabled each of them returns the
\* synthetic dataset, every rep marked isMock, sheetName 'Mock Data', and the
\* call never raises.
C9_AsStated ==
    /\ OneOutcome
    /\ RaisesOrMock(FetchFailed("meta") \/ FetchFailed("grid") \/ NoPrefixedSheet
                    \/ ZeroDayColumns)
    /\ USE_MOCK_DATA_ON_FAILURE => main.thrown = <<>>

\* C9, amended: as stated, but zero day columns raise (or give the synthetic
\* dataset) only in a grid of at least two rows; a grid of fewer than two rows
\* is returned as an empty list with the sheet name when the flag is disabled
\* and as the synthetic dataset when it is enabled.
C9_OneOutcomeRaiseOrMock ==
    /\ OneOutcome
    /\ RaisesOrMock(FetchFailed("meta") \/ FetchFailed("grid") \/ NoPrefixedSheet
                    \/ (ZeroDayColumns /\ ~FewerThanTwoRows))
    /\ (QueryEnded /\ FewerThanTwoRows) =>
          /\ main.pc = "returned"
          /\ IF USE_MOCK_DATA_ON_FAILURE THEN IsMockDataset(Outcome)
             ELSE Outcome = [reps |-> <<>>, sheetName |-> main.sheetName]
    /\ USE_MOCK_DATA_ON_FAILURE => main.thrown = <<>>
C9_Witness ==
    /\ ~USE_MOCK_DATA_ON_FAILURE
    /\ main.pc = "threw"
    /\ ZeroDayColumns
    /\ Len(main.values.v) >= 2

\* The grid the query retrieved parses to zero reps.
ZeroReps ==
    /\ FetchOk("meta") /\ FetchOk("grid")
    /\ \/ main.grid.kind = "short"
       \/ main.grid.kind = "parsed" /\ main.grid.repsMap = <<>>
Warned == console \cap {"warn:no-data", "warn:no-reps"} # {}

\* C10 as stated: when metadata and grid retrieval succeed and the grid
\* parses to zero reps, the query returns an empty Rep list paired with the
\* resolved sheet name; a warning is logged and no error is raised.
C10_AsStated ==
    (QueryEnded /\ ZeroReps) =>
        /\ main.pc = "returned"
        /\ main.thrown = <<>>
        /\ Warned
        /\ Outcome = [reps |-> <<>>, sheetName |-> ToStr(Selected)]

\* C10, amended: with the fallback flag disabled, when metadata and grid
\* retrieval succeed and the grid parses to zero reps, the query returns an
\* empty Rep list paired with the resolved sheet name; with the flag enabled
\* it returns the synthetic dataset; either way a warning is logged and no
\* error is raised.
C10_ZeroRepsEmptyOrMock ==
    (QueryEnded /\ ZeroReps) =>
        /\ main.pc = "returned"
        /\ main.thrown = <<>>
        /\ Warned
        /\ IF USE_MOCK_DATA_ON_FAILURE THEN IsMockDataset(Outcome)
           ELSE Outcome = [reps |-> <<>>, sheetName |-> ToStr(Selected)]
C10_Witness ==
    /\ ~USE_MOCK_DATA_ON_FAILURE
    /\ main.pc = "returned"
    /\ main.grid.kind = "parsed"
    /\ main.grid.repsMap = <<>>
    /\ main.reps = Arr(<<>>)
    /\ Outcome.reps = <<>>
    /\ Outcome.sheetName = TitleDec
    /\ "warn:no-reps" \in console

(***************************************************************************)
(* Vocabulary of the claims about the row scan: what each of the rows of   *)
(* ScanRowChoices is, read off the row itself.                             *)
(***************************************************************************)
\* Rows whose first column is a slot label alone, and the slot it names.
LabelOnlyRows == {RowSlot2, RowSlot3, RowSlot4}
SlotOfRow(row) ==
    CASE row = RowSlot2 -> "ts-2"
      [] row = RowSlot3 -> "ts-3"
      [] row = RowSlot4 -> "ts-4"
      [] OTHER -> "ts-1"
\* Rows that establish a name: a bare-name row or a named time-slot row.
NamedSlotRows == {RowSamEmpty, RowSamBoth}
NameOfRow(row) == IF row = RowJane THEN JaneDoe ELSE SamLee
\* Rows that end a block: a blank first column or an ALL-CAPS first column.
BlockEnds == {RowBlank, RowCaps}
\* The name in force after the rows: that of the last row that is no label
\* alone, if it establishes one.
NameInForce(rows) ==
    LET others == {j \in 1..Len(rows) : rows[j] \notin LabelOnlyRows}
        last == CHOOSE j \in others : \A k \in others : k <= j
    IN  IF others = {} \/ rows[last] \in BlockEnds THEN <<>>
        ELSE NameOfRow(rows[last])
Before(rows) == SubSeq(rows, 1, Len(rows) - 1)
Last(rows) == rows[Len(rows)]
HasDraft(name) ==
    \E k \in 1..Len(output.st.repsMap) : output.st.repsMap[k].name = name
DraftOf(name) ==
    output.st.repsMap[CHOOSE k \in 1..Len(output.st.repsMap) :
                          output.st.repsMap[k].name = name]
Holds(set, x) == \E k \in 1..Len(set) : set[k] = x
\* The names of the day columns as the headers write them.
MondayName == <<"M", "o", "n", "d", "a", "y">>
TuesdayName == <<"T", "u", "e", "s", "d", "a", "y">>

\* C11: a time-slot row whose first column is a slot label alone is
\* attributed to the name most recently established by a bare-name row or a
\* named time-slot row with no blank row and no divider row in between: the
\* name carried by the scan is that name after every row, and the row's
\* slot is recorded for it.
C11_LabelOnlyRowGoesToNameInForce ==
    /\ output.st.currentRepContext = NameInForce(input.dataRows)
    /\ (/\ input.dataRows # <<>>
        /\ Last(input.dataRows) \in LabelOnlyRows
        /\ NameInForce(Before(input.dataRows)) # <<>>)
       => /\ HasDraft(NameInForce(Before(input.dataRows)))
          /\ Holds(DraftOf(NameInForce(Before(input.dataRows))).unavailableSlots[MondayName],
                   SlotOfRow(Last(input.dataRows)))
C11_Witness ==
    /\ input.dataRows = <<RowJane, RowSlot2>>
    /\ output.st.currentRepContext = JaneDoe
    /\ Len(output.st.repsMap) = 1
    /\ output.st.repsMap[1].name = JaneDoe
    /\ output.st.repsMap[1].unavailableSlots[MondayName] = <<"ts-2">>

(***************************************************************************)
(* Vocabulary of the claims about single calls.                            *)
(***************************************************************************)
Returned(fn) == input.fn = fn /\ output # Undefined
\* The cell of a row under the column, undefined when the row is shorter.
CellUnder(row, colIndex) ==
    IF colIndex + 1 <= Len(row.v) THEN row.v[colIndex + 1] ELSE Undefined
\* The cells that leave a slot open: empty or missing, boolean true, the
\* text TRUE in any case, the checkmark glyph; text is read trimmed.
LeavesOpen(cell) ==
    \/ cell \in {Undefined, Null, Bool(TRUE)}
    \/ /\ cell.t = "string"
       /\ \/ trim(cell.v) = <<>>
          \/ toUpperCase(trim(cell.v)) = <<"T", "R", "U", "E">>
          \/ trim(cell.v) = <<CheckMark>>
\* The slot label that ends the first column of a row of MarkRows.
SlotOfMarkRow(row) ==
    CHOOSE n \in 1..Len(TIME_SLOTS) :
        row.v[1] = Str(Chars(SamLee, TIME_SLOTS[n].label))

\* C12: for a processed time-slot row and every day column, the slot is in
\* that day's unavailable set exactly when the cell is not one of: empty or
\* missing, boolean true, text TRUE (any case, trimmed), or the checkmark
\* glyph; boolean false, text FALSE and any other non-empty text mark it
\* unavailable.
C12_SlotUnavailableUnlessOpenMark ==
    Returned("scanRow") =>
        /\ Len(output.repsMap) = 1
        /\ output.repsMap[1].name = SamLee
        /\ \A day \in {[name |-> MondayName, colIndex |-> 1],
                       [name |-> TuesdayName, colIndex |-> 2]} :
              Holds(output.repsMap[1].unavailableSlots[day.name],
                    TIME_SLOTS[SlotOfMarkRow(input.row)].id)
              <=> ~LeavesOpen(CellUnder(input.row, day.colIndex))
C12_Witness ==
    /\ Returned("scanRow")
    /\ input.row = Arr(<<Str(Chars(SamLee, TIME_SLOTS[3].label)),
                         Str(<<" ", "t", "r", "u", "e", " ">>), Str(Booked)>>)
    /\ output.repsMap[1].unavailableSlots[MondayName] = <<>>
    /\ output.repsMap[1].unavailableSlots[TuesdayName] = <<"ts-3">>

(***************************************************************************)
(* Vocabulary of the claims about drafts and Reps.                         *)
(***************************************************************************)
\* The names of the day columns of the headers of ScanHeaders.
DayNamesOf(headerRow) ==
    IF headerRow = HeaderRow THEN {MondayName, TuesdayName} ELSE {MondayName}
\* The ids of the TimeSlot catalog.
CatalogIds == {TIME_SLOTS[n].id : n \in 1..Len(TIME_SLOTS)}
\* An unavailableSlots value with one entry per day column and catalog ids only.
WellFormedSlots(unavailableSlots) ==
    /\ DOMAIN unavailableSlots = DayNamesOf(input.headerRow)
    /\ \A name \in DOMAIN unavailableSlots :
          \A k \in 1..Len(unavailableSlots[name]) :
              unavailableSlots[name][k] \in CatalogIds
RepsBuilt == output.reps # Undefined

\* C13: at every point of the row scan and in the final output, every draft
\* and every Rep has an unavailableSlots entry (possibly empty) for every day
\* column discovered in the header, and every slot id in an entry belongs to
\* the TimeSlot catalog.
C13_SlotsCoverDaysWithCatalogIds ==
    /\ \A k \in 1..Len(output.st.repsMap) :
          WellFormedSlots(output.st.repsMap[k].unavailableSlots)
    /\ RepsBuilt =>
          \A k \in 1..Len(output.reps.v) :
              WellFormedSlots(output.reps.v[k].unavailableSlots)
C13_Witness ==
    /\ input.headerRow = HeaderRow
    /\ input.dataRows = <<RowSamBoth, RowSlot3, RowJane, RowSlot4>>
    /\ RepsBuilt
    /\ Len(output.reps.v) = 2
    /\ output.reps.v[1].unavailableSlots =
          [name \in {MondayName, TuesdayName} |-> <<"ts-1", "ts-3">>]
    /\ output.reps.v[2].unavailableSlots =
          [name \in {MondayName, TuesdayName} |->
              IF name = MondayName THEN <<"ts-4">> ELSE <<>>]

\* Row j of the rows matches a time-slot label and is attributed to the name.
AttributedTo(rows, j, name) ==
    \/ rows[j] \in NamedSlotRows /\ NameOfRow(rows[j]) = name
    \/ rows[j] \in LabelOnlyRows /\ NameInForce(SubSeq(rows, 1, j - 1)) = name

\* C14: a draft exists for a name only if at least one row matching a
\* time-slot label was attributed to that name; bare-name rows, blank rows
\* and divider rows never create a draft, so a name followed by no time-slot
\* row yields no Rep.
C14_DraftOnlyFromSlotRow ==
    /\ \A k \in 1..Len(output.st.repsMap) :
          /\ output.st.repsMap[k].name # <<>>
          /\ \E j \in 1..Len(input.dataRows) :
                AttributedTo(input.dataRows, j, output.st.repsMap[k].name)
    /\ RepsBuilt =>
          /\ Len(output.reps.v) = Len(output.st.repsMap)
          /\ \A k \in 1..Len(output.reps.v) :
                output.reps.v[k].name = output.st.repsMap[k].name
C14_Witness ==
    /\ input.dataRows = <<RowJane, RowBlank, RowSlot2, RowCaps>>
    /\ RepsBuilt
    /\ output.st.repsMap = <<>>
    /\ output.reps.v = <<>>

\* The day has an open slot for the Rep: fewer slots marked unavailable
\* than the catalog has.
OpenDay(rep, name) == Len(rep.unavailableSlots[name]) < Len(TIME_SLOTS)
\* The summary the days with an open slot give, in day-column order.
SummaryOf(rep) ==
    LET mon == OpenDay(rep, MondayName)
        tue == input.headerRow = HeaderRow /\ OpenDay(rep, TuesdayName)
    IN  IF mon /\ tue THEN <<"M", "o", "n", ",", " ", "T", "u", "e">>
        ELSE IF mon THEN <<"M", "o", "n">>
        ELSE IF tue THEN <<"T", "u", "e">>
        ELSE <<"N", "o", "t", " ", "a", "v", "a", "i", "l", "a", "b", "l", "e">>

\* C15: a Rep's availability summary contains the 3-letter abbreviation of a
\* day exactly when the number of slots marked unavailable for that Rep on
\* that day is less than the number of time slots; the abbreviations appear
\* in day-column order joined by ', ', and the summary is exactly
\* 'Not available' when no day qualifies.
C15_SummaryListsOpenDays ==
    RepsBuilt =>
        \A k \in 1..Len(output.reps.v) :
            output.reps.v[k].availability = SummaryOf(output.reps.v[k])
C15_Witness ==
    /\ input.headerRow = HeaderRow
    /\ input.dataRows = <<RowSamBoth, RowSlot2, RowSlot3, RowSlot4>>
    /\ RepsBuilt
    /\ output.reps.v[1].unavailableSlots[MondayName] = <<"ts-1", "ts-2", "ts-3", "ts-4">>
    /\ output.reps.v[1].unavailableSlots[TuesdayName] = <<"ts-1", "ts-3">>
    /\ output.reps.v[1].availability = <<"T", "u", "e">>
C15_WitnessNotAvailable ==
    /\ input.headerRow # HeaderRow
    /\ input.dataRows = <<RowSamBoth, RowSlot2, RowSlot3, RowSlot4>>
    /\ RepsBuilt
    /\ output.reps.v[1].availability = NotAvailable

(***************************************************************************)
(* The query on the grid of Sam Lee.                                       *)
(***************************************************************************)
AllFetchesOk == \A c \in {"meta", "grid", "skills", "ranks"} : FetchOk(c)

\* C16: with successful metadata, grid, skill and rank retrieval, a grid of a
\* header row with one day column plus one time-slot row for "Sam Lee" whose
\* availability cell is empty yields exactly one Rep, named "Sam Lee", whose
\* summary includes that day's abbreviation and whose unavailable-slot list
\* for that day is empty.
C16_SamLeeGridYieldsOneRep ==
    (QueryEnded /\ AllFetchesOk /\ main.values = SamLeeGrid.values) =>
        /\ main.pc = "returned"
        /\ main.thrown = <<>>
        /\ Len(Outcome.reps) = 1
        /\ Outcome.reps[1].name = SamLee
        /\ Outcome.reps[1].availability = <<"M", "o", "n">>
        /\ Outcome.reps[1].unavailableSlots[MondayName] = <<>>
C16_Witness ==
    /\ QueryEnded /\ AllFetchesOk
    /\ main.values = SamLeeGrid.values
    /\ \A c \in {"meta", "grid", "skills", "ranks"} : calls[c].nreq = 1
    /\ Len(Outcome.reps) = 1
    /\ Outcome.reps[1].name = SamLee
    /\ Outcome.reps[1].skills # Undefined
    /\ Outcome.reps[1].salesRank # Undefined

(***************************************************************************)
(* Vocabulary of the claims about findSheetNameForDate.                    *)
(***************************************************************************)
Prefixed(title) == title \in {TitleDec, TitleJan, TitleJune, TitlePlain}
HasRangeToken(title) == title \in {TitleDec, TitleJan, TitleJune, TitleWeek}
\* The M/D - M/D token of the titles that carry one.
RangeOf(title) ==
    CASE title = TitleDec -> [startMonth |-> 12, startDay |-> 30, endMonth |-> 1, endDay |-> 5]
      [] title = TitleJan -> [startMonth |-> 1, startDay |-> 6, endMonth |-> 1, endDay |-> 12]
      [] title = TitleJune -> [startMonth |-> 6, startDay |-> 3, endMonth |-> 6, endDay |-> 9]
      [] title = TitleWeek -> [startMonth |-> 1, startDay |-> 1, endMonth |-> 1, endDay |-> 31]
\* Calendar order of two dates, the days themselves included.
NotAfter(a, b) ==
    \/ a.y < b.y
    \/ a.y = b.y /\ a.m < b.m
    \/ a.y = b.y /\ a.m = b.m /\ a.d <= b.d
\* The range of the title, begun in year Y, contains the date.
ContainsIn(title, d, Y) ==
    LET r == RangeOf(title)
    IN  /\ NotAfter([y |-> Y, m |-> r.startMonth, d |-> r.startDay], d)
        /\ NotAfter(d, [y |-> IF r.startMonth > r.endMonth THEN Y + 1 ELSE Y,
                        m |-> r.endMonth, d |-> r.endDay])
Candidate(title, d) ==
    /\ Prefixed(title)
    /\ HasRangeToken(title)
    /\ \E Y \in {d.y, d.y - 1, d.y + 1} : ContainsIn(title, d, Y)
\* The places of the list that hold a candidate, or a prefixed title.
CandidatePlaces == {n \in 1..Len(input.titles) : Candidate(input.titles[n], input.dateToFind)}
PrefixedPlaces == {n \in 1..Len(input.titles) : Prefixed(input.titles[n])}
FirstOf(places) == CHOOSE n \in places : \A m \in places : n <= m

InTurnOfYear(d) ==
    \/ d.m = 12 /\ d.d >= 30
    \/ d.m = 1 /\ d.d <= 5

\* C18: for a range token whose start month is greater than its end month
\* the end bound is placed in year Y+1 for each candidate year Y, so a target
\* date early in year T inside the range matches through candidate year T-1:
\* with the titles "Schedule 12/30 - 1/5", "Schedule 1/6 - 1/12" and target
\* 2024-01-02 the first title is selected, and the bounds are inclusive.
C18_RangeOverTurnOfYear ==
    Returned("findSheetNameForDate") =>
        /\ (input.titles = <<TitleDec, TitleJan>>
            /\ input.dateToFind = [y |-> 2024, m |-> 1, d |-> 2])
           => output.title = Str(TitleDec)
        /\ input.titles \in {<<TitleJune, TitleDec>>, <<TitleJan, TitleJune, TitleDec>>}
           => IF InTurnOfYear(input.dateToFind) THEN output.title = Str(TitleDec)
              ELSE output.title = Str(input.titles[1])
C18_Witness ==
    /\ Returned("findSheetNameForDate")
    /\ input.titles = <<TitleJan, TitleJune, TitleDec>>
    /\ input.dateToFind = [y |-> 2024, m |-> 1, d |-> 5]
    /\ output.title = Str(TitleDec)

\* C19: when no prefixed title's range contains the target date in any of
\* the three years, findSheetNameForDate returns the first title in list
\* order that has the prefix, whether or not it carries a date range, and
\* does not raise; it returns null only when no title has the prefix.
C19_FallbackFirstPrefixed ==
    Returned("findSheetNameForDate") =>
        /\ ~output.threw
        /\ (CandidatePlaces = {} /\ PrefixedPlaces # {})
           => output.title = Str(input.titles[FirstOf(PrefixedPlaces)])
        /\ output.title = Null <=> PrefixedPlaces = {}
C19_Witness ==
    /\ Returned("findSheetNameForDate")
    /\ input.dateToFind = [y |-> 2024, m |-> 3, d |-> 15]
    /\ input.titles = <<TitleWeek, TitlePlain, TitleJan>>
    /\ output.title = Str(TitlePlain)
\* No title has the prefix: null is returned.
C19_WitnessNull ==
    /\ Returned("findSheetNameForDate")
    /\ input.titles = <<TitleWeek, TitleOther>>
    /\ output.title = Null

\* The other half of C19, in the query: a null selection makes
\* fetchSheetData fail before the grid is requested (lines 219-223): it
\* raises, or returns the synthetic dataset when the flag is enabled.
C19_NullSelectionFailsQuery ==
    (QueryEnded /\ FetchOk("meta") /\ NoPrefixedSheet) =>
        /\ Selected = Null
        /\ ~Issued("grid")
        /\ IF USE_MOCK_DATA_ON_FAILURE
           THEN main.pc = "returned" /\ IsMockDataset(Outcome)
           ELSE main.pc = "threw"

(***************************************************************************)
(* Vocabulary of the claim about regions.                                  *)
(***************************************************************************)
Bands == [PHX |-> 2..118, NORTH |-> 119..135, SOUTH |-> 136..152]
BandsOf(firstRowIndex) == {b \in DOMAIN Bands : firstRowIndex \in Bands[b]}

\* C20: Region is a function of firstRowIndex alone: PHX for 2..118, NORTH
\* for 119..135, SOUTH for 136..152, UNKNOWN otherwise; the bands are
\* pairwise disjoint, so every index maps to exactly one region (10 -> PHX,
\* 125 -> NORTH, 200 -> UNKNOWN).
C20_RegionBands ==
    Returned("Region") =>
        /\ Cardinality(BandsOf(input.firstRowIndex)) <= 1
        /\ \A b \in BandsOf(input.firstRowIndex) : output.region = b
        /\ BandsOf(input.firstRowIndex) = {} => output.region = "UNKNOWN"
        /\ input.firstRowIndex = 10 => output.region = "PHX"
        /\ input.firstRowIndex = 125 => output.region = "NORTH"
        /\ input.firstRowIndex = 200 => output.region = "UNKNOWN"
C20_Witness ==
    /\ Returned("Region")
    /\ input.firstRowIndex = 200
    /\ output.region = "UNKNOWN"
\* The first and last rows of the bands are reached.
C20_WitnessBandEdges ==
    /\ Returned("Region")
    /\ input.firstRowIndex \in {2, 118, 119, 135, 136, 152, 153}
    /\ output.region = "SOUTH"

(***************************************************************************)
(* Vocabulary of the claims about the name key and the two loaders.        *)
(***************************************************************************)
KeyChars ==
    {"a", "b", "c", "d", "e", "f", "g", "h", "i", "j", "k", "l", "m", "n", "o",
     "p", "q", "r", "s", "t", "u", "v", "w", "x", "y", "z",
     "0", "1", "2", "3", "4", "5", "6", "7", "8", "9"}

\* C21: normalizeName outputs only characters in a-z and 0-9, is idempotent,
\* and maps names differing only in case, punctuation, quotes or whitespace
\* to the same key: "O'Brien, Jr. " and "obrien jr" normalize to the same key.
C21_NameKey ==
    Returned("normalizeName") =>
        /\ \A n \in 1..Len(output.key) : output.key[n] \in KeyChars
        /\ output.keyOfKey = output.key
        /\ output.keyOfOther = output.key
C21_Witness ==
    /\ Returned("normalizeName")
    /\ input.name = OBrienJr
    /\ input.other = obrienjr
    /\ output.key = <<"o", "b", "r", "i", "e", "n", "j", "r">>
    /\ output.keyOfOther = output.key

\* The key a row of the rank list carries; rows of the header token and rows
\* without a name carry none.
RankKeys == [samlee |-> {RankSam, RankSamLower}, janedoe |-> {RankJane}]
KeyText(k) ==
    IF k = "samlee" THEN <<"s", "a", "m", "l", "e", "e">>
    ELSE <<"j", "a", "n", "e", "d", "o", "e">>
PlacesOf(k) == {n \in 1..Len(input.values) : input.values[n] \in RankKeys[k]}

\* C22: in the rank map built by fetchSalesRankings each normalized name maps
\* to 1 + the index, in the fetched list, of the first row carrying that
\* normalized name (index 0 = rank 1); a later duplicate never replaces an
\* earlier rank, and rows containing 'sales order' or an empty name add no
\* entry.
C22_FirstRankWins ==
    Returned("fetchSalesRankings") =>
        /\ ~output.threw
        /\ DOMAIN output.map = {KeyText(k) : k \in {j \in DOMAIN RankKeys : PlacesOf(j) # {}}}
        /\ \A k \in DOMAIN RankKeys :
              PlacesOf(k) # {} => output.map[KeyText(k)] = FirstOf(PlacesOf(k))
C22_Witness ==
    /\ Returned("fetchSalesRankings")
    /\ input.values = <<RankHeader, RankSamLower, RankSam>>
    /\ DOMAIN output.map = {<<"s", "a", "m", "l", "e", "e">>}
    /\ output.map[<<"s", "a", "m", "l", "e", "e">>] = 2

\* Z of the header rows of SkillHeaderChoices: the index, counted from 0, of
\* the first header containing 'zip'; -1 when there is none.
ZipIndexOf(headers) ==
    CASE headers[1] = NameZipHeader -> 0
      [] headers[2] = ZipCodes -> 1
      [] headers[3] = ZipCodes -> 2
      [] headers[4] = ZipCodes -> 3
      [] OTHER -> -1
\* What a cell gives as a skill value and as zip codes.
SkillValueOf(cell) ==
    CASE cell = Three -> 3
      [] cell = TwoZips -> 85001
      [] OTHER -> -1
ZipCodesOf(cell) ==
    CASE cell = Three -> <<Three>>
      [] cell = TwoZips -> <<<<"8", "5", "0", "0", "1">>, <<"8", "5", "0", "0", "2">>>>
      [] cell = <<>> -> <<>>
      [] OTHER -> <<cell>>
\* The cell of the data row in the column, counted from 0; nothing when the
\* row is shorter.
CellIn(col) == IF col + 1 <= Len(input.cells) THEN input.cells[col + 1] ELSE <<>>
\* The skills the columns give: the trimmed header with the number of the
\* cell; of two columns with the same header the later one counts.
SkillsFrom(cols) ==
    LET numeric == {c \in cols : SkillValueOf(CellIn(c)) >= 0}
        named(h) == {c \in numeric : trim(input.headers[c + 1]) = h}
    IN  [h \in {trim(input.headers[c + 1]) : c \in numeric} |->
            SkillValueOf(CellIn(CHOOSE c \in named(h) : \A d \in named(h) : d <= c))]
SamLeeKey == <<"s", "a", "m", "l", "e", "e">>
SkillEntry == output.map[SamLeeKey]

\* C23 as stated: with Z the index of the first header containing 'zip', the
\* skill columns are exactly the columns with index in 1..Z-1 and zip codes
\* come from column Z; when no header contains 'zip', every column after
\* column 0 is a skill column and zipCodes is empty for every row; column 0
\* is always the person name and never a skill or zip column.
C23_AsStated ==
    Returned("fetchRepSkills") =>
        \E Z \in {ZipIndexOf(input.headers)} :
            /\ ~output.threw
            /\ DOMAIN output.map = {SamLeeKey}
            /\ Z >= 0 => SkillEntry.skills = SkillsFrom(1..(Z - 1))
            /\ Z >= 1 => SkillEntry.zipCodes = ZipCodesOf(CellIn(Z))
            /\ Z = -1 => /\ SkillEntry.skills = SkillsFrom(1..(Len(input.headers) - 1))
                         /\ SkillEntry.zipCodes = <<>>
            /\ Z = 0 => SkillEntry.zipCodes = <<>>
\* The claim holds whenever the first header containing 'zip' is not the
\* header of column 0.
C23_HoldsUnlessNameHeaderHasZip ==
    (Returned("fetchRepSkills") /\ ZipIndexOf(input.headers) # 0) =>
        \E Z \in {ZipIndexOf(input.headers)} :
            /\ ~output.threw
            /\ DOMAIN output.map = {SamLeeKey}
            /\ SkillEntry.skills =
                  SkillsFrom(1..((IF Z = -1 THEN Len(input.headers) ELSE Z) - 1))
            /\ SkillEntry.zipCodes = (IF Z = -1 THEN <<>> ELSE ZipCodesOf(CellIn(Z)))
\* With 'zip' in the header of column 0 the columns after it are skills and
\* the zip codes are the words of the name.
C23_NameReadAsZipCodes ==
    /\ Returned("fetchRepSkills")
    /\ input.headers = <<NameZipHeader, Roof, Tile>>
    /\ input.cells = <<SamLee, Three, <<"x">>, <<>>>>
    /\ SkillEntry.skills = [h \in {Roof} |-> 3]
    /\ SkillEntry.zipCodes = <<<<"S", "a", "m">>, <<"L", "e", "e">>>>

(***************************************************************************)
(* Vocabulary of the claim about fetchSheetCell.                           *)
(***************************************************************************)
CellEnded == output.pc \in {"returned", "threw"}
CellRaised == output.pc = "threw" /\ Len(output.thrown) = 1 /\ output.returned = <<>>
CellReturned(text) ==
    output.pc = "returned" /\ output.returned = <<text>> /\ output.thrown = <<>>
CellFetchOk == solo.pc = "returned" /\ IsOk(solo.response[1])
CellFetchFailed == solo.pc = "threw" \/ (solo.pc = "returned" /\ ~IsOk(solo.response[1]))
\* The text the claim gives for the bodies that can be read.
CellTextOf(body) ==
    CASE body = Values(Arr(<<Arr(<<Str(Booked)>>)>>)) -> Booked
      [] body = Values(Arr(<<Arr(<<Num(0)>>)>>)) -> <<"0">>
      [] body = Values(Arr(<<Arr(<<Bool(FALSE)>>)>>)) -> <<"f", "a", "l", "s", "e">>
      [] OTHER -> <<"(", "e", "m", "p", "t", "y", ")">>
\* Raised on an empty sheetName, before any request; raised on a transport
\* failure or a non-2xx response.
CellRaisesAsStated ==
    /\ input.sheetName = <<>> =>
          /\ solo = IdleCall /\ log = <<>>
          /\ CellEnded => CellRaised /\ output.thrown = <<SheetNameMissing>>
    /\ (CellEnded /\ CellFetchFailed) => CellRaised /\ output.thrown = <<CouldNotRetrieve>>
    /\ output.pc # "init" /\ input.sheetName # <<>> => solo.nreq >= 1

\* C24 as stated: fetchSheetCell raises when sheetName is empty, before
\* issuing any network request; raises on a transport failure or a non-2xx
\* response; and otherwise returns '(empty)' when the cell value is missing,
\* null or the empty string, and the value as a string in every other case.
C24_AsStated ==
    /\ CellRaisesAsStated
    /\ (CellEnded /\ input.sheetName # <<>> /\ CellFetchOk) =>
          /\ output.pc = "returned"
          /\ output.body.json
          /\ CellReturned(CellTextOf(output.body))

\* C24, amended: as stated, and fetchSheetCell also raises when the body of a
\* 2xx response cannot be read as JSON; it returns only once the body has
\* been read.
C24_RaisesOrCellText ==
    /\ CellRaisesAsStated
    /\ (CellEnded /\ input.sheetName # <<>> /\ CellFetchOk) =>
          IF output.body.json THEN CellReturned(CellTextOf(output.body))
          ELSE CellRaised /\ output.thrown = <<CouldNotRetrieve>> /\ output.logged
C24_Witness ==
    /\ CellReturned(Empty)
    /\ output.body = Values(Arr(<<Arr(<<Null>>)>>))
    /\ solo.nreq = 2
    /\ solo.response = <<200>>

(***************************************************************************)
(* Vocabulary of the claims about single steps of the row scan.            *)
(***************************************************************************)
\* The step reads one more row, of the given kind.
Reads(kind) ==
    /\ Len(input'.dataRows) = Len(input.dataRows) + 1
    /\ Last(input'.dataRows) \in kind
\* The row read before this step is of the given kind.
LastWas(kind) == input.dataRows # <<>> /\ Last(input.dataRows) \in kind

\* C25: a row whose first column is empty, or is an ALL-CAPS token with more
\* than one letter or space, sets currentRepContext to none and changes no
\* draft; consequently a label-only time-slot row directly after such a row
\* is attributed to no one.
C25_BlockEndResetsContext ==
    [][/\ Reads(BlockEnds) =>
             /\ output'.st.currentRepContext = <<>>
             /\ output'.st.repsMap = output.st.repsMap
       /\ (Reads(LabelOnlyRows) /\ LastWas(BlockEnds)) =>
             /\ output'.st.currentRepContext = <<>>
             /\ output'.st.repsMap = output.st.repsMap]_vars
C25_Witness ==
    /\ input.dataRows = <<RowSamBoth, RowCaps, RowSlot2, RowJane>>
    /\ Len(output.st.repsMap) = 1
    /\ output.st.repsMap[1].name = SamLee
    /\ output.st.repsMap[1].unavailableSlots[MondayName] = <<"ts-1">>
    /\ output.st.currentRepContext = JaneDoe

\* C26: a time-slot row whose derived name is empty while currentRepContext
\* is none is consumed with no effect: the set of drafts, every unavailable
\* set, every firstRowIndex and currentRepContext are unchanged by that row.
C26_SlotRowForNoOneHasNoEffect ==
    [][(Reads(LabelOnlyRows) /\ output.st.currentRepContext = <<>>) =>
           /\ output'.st.repsMap = output.st.repsMap
           /\ output'.st.currentRepContext = <<>>
           /\ output'.days = output.days]_vars
C26_Witness ==
    /\ input.dataRows = <<RowSamBoth, RowBlank, RowSlot3>>
    /\ output.st.currentRepContext = <<>>
    /\ Len(output.st.repsMap) = 1
    /\ output.st.repsMap[1] =
          [name |-> SamLee, firstRowIndex |-> 2,
           unavailableSlots |-> [d \in DayNamesOf(input.headerRow) |-> <<"ts-1">>]]

(***************************************************************************)
(* Vocabulary of the claims about firstRowIndex and the order of the Reps. *)
(***************************************************************************)
\* The rows attributed to the name, and the first of them.
RowsOf(name) ==
    {j \in 1..Len(input.dataRows) : AttributedTo(input.dataRows, j, name)}
\* The row that opened the block row j belongs to: row j itself when it names
\* the person, otherwise the last row before it that is no label alone.
OpenerOf(j) ==
    IF input.dataRows[j] \in NamedSlotRows THEN j
    ELSE CHOOSE i \in 1..(j - 1) :
            /\ input.dataRows[i] \notin LabelOnlyRows
            /\ \A k \in (i + 1)..(j - 1) : input.dataRows[k] \in LabelOnlyRows
\* The sheet row of data row j: row 1 of the sheet is the header.
SheetRow(j) == j + 1

\* C27 as stated: a draft's firstRowIndex is the 1-based sheet row where that
\* person's block began: for a block opened by a bare-name row and continued
\* by label-only time-slot rows it is the sheet row of the bare-name row, and
\* the region is classified from that row.
C27_AsStated ==
    /\ \A k \in 1..Len(output.st.repsMap) :
          output.st.repsMap[k].firstRowIndex =
              SheetRow(OpenerOf(FirstOf(RowsOf(output.st.repsMap[k].name))))
    /\ RepsBuilt =>
          \A k \in 1..Len(output.reps.v) :
              output.reps.v[k].region = Region(output.st.repsMap[k].firstRowIndex)
\* What the code records: the sheet row of the first time-slot row attributed
\* to the name; the region is classified from that row.
C27_FirstRowIsFirstSlotRow ==
    /\ \A k \in 1..Len(output.st.repsMap) :
          output.st.repsMap[k].firstRowIndex =
              SheetRow(FirstOf(RowsOf(output.st.repsMap[k].name)))
    /\ RepsBuilt =>
          \A k \in 1..Len(output.reps.v) :
              output.reps.v[k].region = Region(output.st.repsMap[k].firstRowIndex)
\* Jane Doe on sheet row 2, her first time-slot row on sheet row 3.
C27_BareNameRowNotRecorded ==
    /\ input.dataRows = <<RowJane, RowSlot2>>
    /\ Len(output.st.repsMap) = 1
    /\ output.st.repsMap[1].name = JaneDoe
    /\ output.st.repsMap[1].firstRowIndex = 3

\* The names the rows of the scan can carry, each with its id text after the
\* ordinal, and the ordinals as text.
ScanNames == {JaneDoe, SamLee}
Dashed(name) ==
    IF name = JaneDoe THEN <<"J", "a", "n", "e", "-", "D", "o", "e">>
    ELSE <<"S", "a", "m", "-", "L", "e", "e">>
OrdinalText(i) == <<<<"1">>, <<"2">>>>[i]
IdText(i, name) == <<"r", "e", "p", "-">> \o OrdinalText(i) \o <<"-">> \o Dashed(name)
NamesAttributed == {name \in ScanNames : RowsOf(name) # {}}

\* C28: the output Reps appear in the order in which their names were first
\* attributed a time-slot row, one Rep per attributed name; the i-th Rep has
\* the id rep-<i>-<name with dashes for whitespace> with i counted from 1; no
\* two Reps of one result share a name or an id.
C28_RepsInDiscoveryOrder ==
    RepsBuilt =>
        LET reps == output.reps.v
        IN  /\ {reps[i].name : i \in 1..Len(reps)} = NamesAttributed
            /\ \A i, k \in 1..Len(reps) :
                  /\ i < k => FirstOf(RowsOf(reps[i].name)) < FirstOf(RowsOf(reps[k].name))
                  /\ i # k => reps[i].name # reps[k].name /\ reps[i].id # reps[k].id
            /\ \A i \in 1..Len(reps) : reps[i].id = IdText(i, reps[i].name)

\* Sam Lee is seen first, Jane Doe second, and Sam Lee has a later row too.
C28_Witness ==
    /\ RepsBuilt
    /\ Len(output.reps.v) = 2
    /\ output.reps.v[1].name = SamLee
    /\ output.reps.v[2].id = IdText(2, JaneDoe)
    /\ \E j \in RowsOf(SamLee) : j > FirstOf(RowsOf(JaneDoe))

\* The backoff state of a call, and what it must be after the call's own
\* sleeps alone.
Backoff(c) == [currentDelay |-> c.currentDelay, left |-> c.retries - c.i]
OwnBackoff(c) ==
    LET woken == IF Sleeping(c) THEN c.nsleep - 1 ELSE c.nsleep
    IN  [currentDelay |-> c.initialDelay * Pow2(woken), left |-> c.retries - woken]
FailsIn(c) ==
    /\ calls[c].pc = "fetch"
    /\ calls'[c].pc \in {"sleepAfterStatus", "sleepAfterThrow", "threw"}
       \/ (calls'[c].pc = "returned" /\ ~IsOk(calls'[c].response[1]))

\* C29: the backoff state belongs to one fetchWithRetry call.  The delay and
\* the remaining attempts of every call are those its own sleeps produce;
\* while one call is sleeping, the response of another call that is awaiting
\* fetch can arrive and another sleeping call can wake and issue its next
\* request; a step in which one call fails leaves every other call as it was.
C29_BackoffLocalToCall ==
    /\ [](\A c \in CallIds :
            /\ calls[c].pc # "idle" => Backoff(calls[c]) = OwnBackoff(calls[c])
            /\ Sleeping(calls[c]) =>
                  \A d \in CallIds \ {c} :
                      /\ calls[d].pc = "fetch" => ENABLED NetRespond(d)
                      /\ Sleeping(calls[d]) => ENABLED NetWake(d))
    /\ [][\A c \in CallIds : FailsIn(c) =>
             \A d \in CallIds \ {c} : calls'[d] = calls[d]]_vars

\* The metadata call is in its second sleep; meanwhile the skill call has
\* returned at its first request and the rank call, after one failure of its
\* own, has issued its second request.
C29_Witness ==
    /\ Sleeping(calls["meta"]) /\ calls["meta"].nsleep = 2
    /\ calls["meta"].sleepMs = 2 * DefaultInitialDelay
    /\ calls["skills"].pc = "returned" /\ calls["skills"].nreq = 1
    /\ calls["skills"].currentDelay = DefaultInitialDelay
    /\ calls["ranks"].pc = "fetch" /\ calls["ranks"].nreq = 2
    /\ calls["ranks"].currentDelay = 2 * DefaultInitialDelay

Requests == calls["skills"].nreq + calls["ranks"].nreq + calls["meta"].nreq
            + calls["grid"].nreq
CallWithinBounds(c) ==
    /\ c.nreq <= c.retries + 1
    /\ c.nsleep <= c.retries
    /\ c.pc = "returned" => c.response # <<>> /\ c.error = ""
    /\ c.pc = "threw" => c.error \in QueryErrors /\ c.response = <<>>
    /\ c.error # UnexpectedError

Within(a, b) == \A n \in 1..Len(a) : \E m \in 1..Len(b) : b[m] = a[n]
DraftKept(before, after) ==
    /\ after.name = before.name
    /\ after.firstRowIndex = before.firstRowIndex
    /\ DOMAIN after.unavailableSlots = DOMAIN before.unavailableSlots
    /\ \A day \in DOMAIN before.unavailableSlots :
          Within(before.unavailableSlots[day], after.unavailableSlots[day])

\* C31: during the row scan a draft, once created, is never removed, keeps its
\* place, its name and its firstRowIndex, which is the data-row index + 2 of
\* the first time-slot row attributed to the name even when the name comes
\* back in a later block, and its per-day unavailable sets only grow: an
\* available cell of a later row never takes a mark away.
C31_DraftsOnlyGrow ==
    /\ [](\A k \in 1..Len(output.st.repsMap) :
            output.st.repsMap[k].firstRowIndex =
                (FirstOf(RowsOf(output.st.repsMap[k].name)) - 1) + 2)
    /\ [][/\ Len(output'.st.repsMap) >= Len(output.st.repsMap)
          /\ \A k \in 1..Len(output.st.repsMap) :
                DraftKept(output.st.repsMap[k], output'.st.repsMap[k])]_vars

\* Sam Lee is marked unavailable in the first slot on both days; after a blank
\* row the name comes back with the same slot and an empty cell: the draft
\* keeps row 2 and both marks.
C31_Witness ==
    /\ input.headerRow = HeaderRow
    /\ input.dataRows = <<RowSamBoth, RowBlank, RowSamEmpty>>
    /\ Len(output.st.repsMap) = 1
    /\ output.st.repsMap[1].firstRowIndex = 2
    /\ \A day \in DOMAIN output.st.repsMap[1].unavailableSlots :
          output.st.repsMap[1].unavailableSlots[day] = <<"ts-1">>

ListedIds(reps) ==
    [n \in 1..Len(jobsNeedingReschedule(reps)) |-> jobsNeedingReschedule(reps)[n].job.id]
Ticked == output'.clicks = output.clicks + 1

\* The list names no job id twice.
C32_ListedOnce ==
    \A n, m \in 1..Len(ListedIds(output.reps)) :
        n # m => ListedIds(output.reps)[n] # ListedIds(output.reps)[m]

\* C32: after handleConfirmReschedule has set the originalTimeframe of a listed
\* job to its scheduled time label, whatever that label, the job is no longer
\* in jobsNeedingReschedule; and a job id is in the list at most once however
\* many slots or reps contain the job.
C32_AsStated ==
    /\ [][Ticked => \A n \in 1..Len(ListedIds(output'.reps)) :
                        ListedIds(output'.reps)[n] # output'.confirmed.id]_vars
    /\ []C32_ListedOnce

\* job-1 stands in the 8am - 10am slot of rep-1 and in the 10am - 12pm slot of
\* rep-2 and was asked for 10am - 12pm; confirmed for 8am - 10am, it is listed
\* again for its other slot.
C32_ListedAgainForOtherSlot ==
    /\ output.clicks = 1
    /\ output.confirmed = [id |-> "job-1", timeSlotLabel |-> TIME_SLOTS[1].label]
    /\ \E n \in 1..Len(jobsNeedingReschedule(output.reps)) :
          /\ jobsNeedingReschedule(output.reps)[n].job.id = "job-1"
          /\ jobsNeedingReschedule(output.reps)[n].job.timeSlotLabel = TIME_SLOTS[2].label
          /\ jobsNeedingReschedule(output.reps)[n].job.originalTimeframe = TIME_SLOTS[1].label

\* job-1 stands in one slot only and carries the label 6 - 8, read as 18:00
\* to 8:00: confirmed, it overlaps not even itself and stays listed.
C32_StaysListedUnderOwnLabel ==
    /\ output.clicks = 1
    /\ output.confirmed = [id |-> "job-1", timeSlotLabel |-> Six8]
    /\ Cardinality({n \in 1..Len(Visited(output.reps, 1)) :
                        Visited(output.reps, 1)[n].job.id = "job-1"}) = 1
    /\ \E n \in 1..Len(ListedIds(output.reps)) : ListedIds(output.reps)[n] = "job-1"

\* Line 167: the slots whose button is drawn active.
ActiveSlots == {k \in 1..Len(TIME_SLOTS) : output.selectedTimeSlotId = <<TIME_SLOTS[k].id>>}
LabelOfSlot(label, k) == TIME_SLOTS[k].label = label
DimmedAsStated(job) ==
    IF ActiveSlots = {} THEN FALSE
    ELSE \/ \A k \in 1..Len(TIME_SLOTS) : ~LabelOfSlot(job.timeSlotLabel, k)
         \/ \E k \in 1..Len(TIME_SLOTS) :
               LabelOfSlot(job.timeSlotLabel, k) /\ k \notin ActiveSlots

\* C33: after any sequence of clicks on slot buttons and on Show All at most
\* one slot is selected: a click on the selected slot clears the selection, a
\* click on another slot replaces it, Show All clears it.  jobsForMap holds
\* every mappable job, in order, none removed; no job is dimmed while no slot
\* is selected, and with a slot selected a job is dimmed exactly when its label
\* is the label of no catalog slot or of a slot other than the selected one.
C33_OneSlotAndAllJobsKept ==
    /\ [](/\ Cardinality(ActiveSlots) <= 1
          /\ output.selectedTimeSlotId # <<>> => ActiveSlots # {}
          /\ input.hasRouteData =>
                /\ Len(output.jobsForMap) = Len(input.mappableJobs)
                /\ \A n \in 1..Len(input.mappableJobs) :
                      /\ output.jobsForMap[n].id = input.mappableJobs[n].id
                      /\ output.jobsForMap[n].timeSlotLabel = input.mappableJobs[n].timeSlotLabel
                      /\ output.jobsForMap[n].isDimmed = DimmedAsStated(input.mappableJobs[n]))
    /\ [][/\ output'.clicked = "Show All" => output'.selectedTimeSlotId = <<>>
          /\ \A k \in 1..Len(TIME_SLOTS) : output'.clicked = TIME_SLOTS[k].id =>
                output'.selectedTimeSlotId =
                    (IF k \in ActiveSlots THEN <<>> ELSE <<TIME_SLOTS[k].id>>)]_vars

\* The second slot is selected after a click on it: of three jobs labelled
\* with the first slot, the second slot and nothing, the first and the third
\* are dimmed.
C33_Witness ==
    /\ output.clicked = "ts-2"
    /\ output.selectedTimeSlotId = <<"ts-2">>
    /\ Len(output.jobsForMap) = 3
    /\ output.jobsForMap[1].timeSlotLabel = TIME_SLOTS[1].label /\ output.jobsForMap[1].isDimmed
    /\ output.jobsForMap[2].timeSlotLabel = TIME_SLOTS[2].label /\ ~output.jobsForMap[2].isDimmed
    /\ output.jobsForMap[3].timeSlotLabel = <<>> /\ output.jobsForMap[3].isDimmed
====
